---- MODULE Spec2Model ----
(***************************************************************************)
(* The explanation-mining engine of macrobase_py: BatchSummarizer and its  *)
(* two strategies, AprioriSummarizer and HeuristicSummarizer.              *)
(*                                                                         *)
(* One summarizer object is modelled.  It is constructed with the default  *)
(* keyword arguments, configured through its fluent setters and then asked *)
(* to explain data frames.  An explain call is split into the steps of the *)
(* source: _prepare, the singleton level, one step per further level (or   *)
(* beam depth), and _finalize.                                             *)
(*                                                                         *)
(* Floats are modelled as exact rationals [n, d] (d > 0, lowest terms),    *)
(* with +inf = [1, 0] and -inf = [-1, 0].  The significance z-score of an  *)
(* explanation (a square root) is not modelled; nothing ranks or filters   *)
(* on it.                                                                  *)
(***************************************************************************)
EXTENDS Integers, Sequences, FiniteSets, TLC

VARIABLES
    kind,           \* the class of the summarizer: "apriori" or "heuristic"
    self,           \* the fields of the summarizer object
    pc,             \* position of the current explain call
    df,             \* working_df of the current call (Option)
    explanations,   \* the local list `explanations` of _run
    level_itemsets, \* AprioriSummarizer._run: combinations of the last level
    k,              \* AprioriSummarizer._run: level counter
    candidate_heap, \* HeuristicSummarizer._run: the beam, in pop order
    visited,        \* HeuristicSummarizer._run: the visited set
    current_depth,  \* HeuristicSummarizer._run: depth counter
    result,         \* the list returned by explain (when pc = "done")
    err,            \* the exception raised by explain (when pc = "raised")
    evaluated,      \* history: combinations handed to _compute_metrics in this call
    ranked,         \* history: the sorted list of _finalize before truncation
    last,           \* history: frame, configuration and outcome of the previous call
    nSet,           \* number of setter calls made so far
    nCalls,         \* number of explain calls made so far
    configured,     \* history: the object as the constructor and the setters left it
    other,          \* a second explain invocation on the object: position, frame, outcome
    ct,             \* metrics engine: the ContingencyTable constructed (Option)
    bundle,         \* metrics engine: the dict returned by compute_metrics (Option)
    norm,           \* _normalize_combination: the pairs handed in and what came back
    filt,           \* filter_candidates: the candidates handed in and what was kept
    fdep,           \* check_functional_dependency: the rows handed in and the result
    clf             \* a classifier: its class, its fitted flag, its last call

vars == <<kind, self, pc, df, explanations, level_itemsets, k, candidate_heap,
          visited, current_depth, result, err, evaluated, ranked, last, nSet, nCalls,
          configured, other, ct, bundle, norm, filt, fdep, clf>>

\* the variables of the metrics engine
metricsVars == <<ct, bundle>>

\* the variables of the other components: combination model, thresholds,
\* functional dependencies, classifiers
utilVars == <<norm, filt, fdep, clf>>

\* everything outside the summarizer
componentVars == <<metricsVars, utilVars>>

-----------------------------------------------------------------------------
(* Bounds of the model *)

MaxRows == 3
MaxSetterCalls == 2
MaxCalls == 2

-----------------------------------------------------------------------------
(* Optional values: None, or a one-element tuple holding the value *)

None == <<>>
Some(x) == <<x>>
IsNone(o) == o = <<>>
Val(o) == o[1]

-----------------------------------------------------------------------------
(* Floats as exact rationals *)

Abs(i) == IF i < 0 THEN -i ELSE i

RECURSIVE Gcd(_, _)
Gcd(a, b) == IF b = 0 THEN a ELSE Gcd(b, a % b)

\* n / d for d > 0, in lowest terms
Frac(n, d) == LET g == Gcd(Abs(n), d) IN [n |-> n \div g, d |-> d \div g]

Zero == Frac(0, 1)
Inf == [n |-> 1, d |-> 0]
NegInf == [n |-> -1, d |-> 0]

Lt(x, y) ==
    CASE x.d = 0 /\ y.d = 0 -> x.n < y.n
      [] x.d = 0 -> x.n < 0
      [] y.d = 0 -> y.n > 0
      [] OTHER -> x.n * y.d < y.n * x.d

Geq(x, y) == ~Lt(x, y)
Gt(x, y) == Lt(y, x)

\* float subtraction and division of finite values (divisor non-zero)
Sub(x, y) == Frac(x.n * y.d - y.n * x.d, x.d * y.d)
Div(x, y) == IF y.n > 0 THEN Frac(x.n * y.d, x.d * y.n)
                        ELSE Frac(-(x.n * y.d), x.d * (-y.n))
Neg(x) == [n |-> -x.n, d |-> x.d]

-----------------------------------------------------------------------------
(* Column names, values and data frames *)

\* Python orders attribute names as strings; the names of the model in that order
NameOrder == <<"a", "b", "browser", "c", "flag", "is_outlier", "region", "segment", "zip">>
Rank(name) == CHOOSE i \in DOMAIN NameOrder : NameOrder[i] = name

\* a missing cell (NaN / None) of a frame
Null == 0
AttrValues == {1, 2}

Range(s) == {s[i] : i \in DOMAIN s}
Contains(s, x) == \E i \in DOMAIN s : s[i] = x

\* sorted(values): ascending sequence of a set of integers
RECURSIVE SortedInts(_)
SortedInts(S) ==
    IF S = {} THEN <<>>
    ELSE LET m == CHOOSE x \in S : \A y \in S : x <= y
         IN <<m>> \o SortedInts(S \ {m})

\* column `col` of a frame, one cell per row
Column(frame, col) == [i \in DOMAIN frame.rows |-> frame.rows[i][col]]

-----------------------------------------------------------------------------
(* Combinations: tuples of <<attribute, value>> pairs *)

\* Python's order on (attribute, value) pairs and on tuples of them
PairLt(p, q) ==
    \/ Rank(p[1]) < Rank(q[1])
    \/ p[1] = q[1] /\ p[2] < q[2]

RECURSIVE CombLt(_, _)
CombLt(c1, c2) ==
    IF c1 = <<>> THEN c2 # <<>>
    ELSE IF c2 = <<>> THEN FALSE
    ELSE IF Head(c1) = Head(c2) THEN CombLt(Tail(c1), Tail(c2))
    ELSE PairLt(Head(c1), Head(c2))

\* sorted(items, key=attribute) for pairs with distinct attributes
RECURSIVE SortByAttr(_)
SortByAttr(S) ==
    IF S = {} THEN <<>>
    ELSE LET m == CHOOSE p \in S : \A q \in S : Rank(p[1]) <= Rank(q[1])
         IN <<m>> \o SortByAttr(S \ {m})

\* sorted(candidates) for a set of combinations: each one stands behind those
\* that are smaller
SortedCombs(S) ==
    IF S = {} THEN <<>>
    ELSE [p \in 1..Cardinality(S) |->
             CHOOSE c \in S : Cardinality({e \in S : CombLt(e, c)}) = p - 1]

\* the dict `seen` after the loop: the last value given to each attribute
Seen(combination) ==
    {combination[i] : i \in {j \in DOMAIN combination :
        \A l \in DOMAIN combination : combination[l][1] = combination[j][1] => l <= j}}

\* mutant: the items of `seen` in the order of insertion, not sorted
_normalize_combination_unsorted(combination) ==
    IF \E i, j \in DOMAIN combination :
          /\ i < j
          /\ combination[i][1] = combination[j][1]
          /\ combination[i][2] # combination[j][2]
    THEN None
    ELSE LET firsts == SortedInts({i \in DOMAIN combination :
                           \A l \in 1..(i - 1) : combination[l][1] # combination[i][1]})
         IN Some(IF firsts = <<>> THEN <<>>
                 ELSE [p \in DOMAIN firsts |-> combination[firsts[p]]])

_normalize_combination(combination) ==
    IF \E i, j \in DOMAIN combination :
          /\ i < j
          /\ combination[i][1] = combination[j][1]
          /\ combination[i][2] # combination[j][2]
    THEN None
    ELSE Some(SortByAttr(Seen(combination)))

CombAttrs(combination) == {combination[i][1] : i \in DOMAIN combination}

-----------------------------------------------------------------------------
(* BatchSummarizer: helpers shared by the strategies.  `s` is the object. *)

SupportedMetrics == {"risk_ratio", "risk_difference", "support_outliers", "support_total"}

\* self.attributes or []
AttributesOrEmpty(s) == IF IsNone(s.attributes) THEN <<>> ELSE Val(s.attributes)

\* self.max_order or len(self.attributes or [])
OrderLimit(s) ==
    IF IsNone(s.max_order) \/ Val(s.max_order) = 0
    THEN Len(AttributesOrEmpty(s))
    ELSE Val(s.max_order)

\* mutant: the FD hints are not consulted
_is_valid_combination_size_only(s, combination) == Len(combination) <= OrderLimit(s)

_is_valid_combination(s, combination) ==
    IF Len(combination) > OrderLimit(s) THEN FALSE
    ELSE IF s.use_fd_hints /\ DOMAIN s.functional_dependencies # {}
         THEN ~ \E determinant \in DOMAIN s.functional_dependencies :
                  /\ determinant \in CombAttrs(combination)
                  /\ s.functional_dependencies[determinant] \cap CombAttrs(combination) # {}
         ELSE TRUE

\* the rows of self._df selected by the combination's mask
MatchingRows(s, combination) ==
    {i \in DOMAIN Val(s.df_).rows :
        \A j \in DOMAIN combination :
            Val(s.df_).rows[i][combination[j][1]] = combination[j][2]}

\* mutant: both supports are taken over the rows of the frame
_compute_metrics_over_rows(s, combination) ==
    LET mask == MatchingRows(s, combination)
        count_outliers == Cardinality({i \in mask : s.outlier_mask_[i]})
        count_inliers == Cardinality({i \in mask : ~s.outlier_mask_[i]})
        support_outliers == Frac(count_outliers, s.total_rows_)
        support_inliers == Frac(count_inliers, s.total_rows_)
        support_total == Frac(count_outliers + count_inliers, s.total_rows_)
        risk_ratio ==
            IF support_inliers = Zero
            THEN IF Gt(support_outliers, Zero) THEN Inf ELSE Zero
            ELSE Div(support_outliers, support_inliers)
        risk_difference == Sub(support_outliers, support_inliers)
    IN [support_outliers |-> support_outliers,
        support_inliers |-> support_inliers,
        support_total |-> support_total,
        risk_ratio |-> risk_ratio,
        risk_difference |-> risk_difference]

_compute_metrics(s, combination) ==
    LET mask == MatchingRows(s, combination)
        count_outliers == Cardinality({i \in mask : s.outlier_mask_[i]})
        count_inliers == Cardinality({i \in mask : ~s.outlier_mask_[i]})
        support_outliers ==
            IF s.n_outliers_ # 0 THEN Frac(count_outliers, s.n_outliers_) ELSE Zero
        support_inliers ==
            IF s.n_inliers_ # 0 THEN Frac(count_inliers, s.n_inliers_) ELSE Zero
        support_total == Frac(count_outliers + count_inliers, s.total_rows_)
        risk_ratio ==
            IF support_inliers = Zero
            THEN IF Gt(support_outliers, Zero) THEN Inf ELSE Zero
            ELSE Div(support_outliers, support_inliers)
        risk_difference == Sub(support_outliers, support_inliers)
    IN [support_outliers |-> support_outliers,
        support_inliers |-> support_inliers,
        support_total |-> support_total,
        risk_ratio |-> risk_ratio,
        risk_difference |-> risk_difference]

\* the value of the configured metric; raises ValueError outside SupportedMetrics
_metric_value(s, metrics) ==
    CASE s.ratio_metric = "risk_ratio" -> metrics.risk_ratio
      [] s.ratio_metric = "risk_difference" -> metrics.risk_difference
      [] s.ratio_metric = "support_outliers" -> metrics.support_outliers
      [] s.ratio_metric = "support_total" -> metrics.support_total

_metric_from_explanation(explanation, metric_name) ==
    CASE metric_name = "risk_ratio" -> explanation.risk_ratio
      [] metric_name = "risk_difference" -> explanation.risk_difference
      [] metric_name = "support_outliers" -> explanation.support_outliers
      [] metric_name = "support_total" -> explanation.support_total

\* mutant: the threshold is applied to support_total
_has_min_support_total(s, metrics) == Geq(metrics.support_total, s.min_support)

_has_min_support(s, metrics) == Geq(metrics.support_outliers, s.min_support)

\* mutant: the metric is compared with min_support
_satisfies_ratio_min_support(s, metrics) == Geq(_metric_value(s, metrics), s.min_support)

_satisfies_ratio(s, metrics) == Geq(_metric_value(s, metrics), s.min_ratio_metric)

\* mutant: the explanation stores the ratio in both fields
_build_explanation_ratio_only(combination, metrics) ==
    [attributes |-> combination,
     support_outliers |-> metrics.support_outliers,
     support_inliers |-> metrics.support_inliers,
     support_total |-> metrics.support_total,
     risk_ratio |-> metrics.risk_ratio,
     risk_difference |-> metrics.risk_ratio]

_build_explanation(combination, metrics) ==
    [attributes |-> combination,
     support_outliers |-> metrics.support_outliers,
     support_inliers |-> metrics.support_inliers,
     support_total |-> metrics.support_total,
     risk_ratio |-> metrics.risk_ratio,
     risk_difference |-> metrics.risk_difference]

\* combinations(combination, k - 1): the tuples that leave one pair out
DropAt(c, i) == [j \in 1..(Len(c) - 1) |-> IF j < i THEN c[j] ELSE c[j + 1]]

\* mutant: only the two subsets that were joined are looked up
_subsets_are_frequent_joined_only(combination, frequent_subsets) ==
    \A i \in {j \in DOMAIN combination : j >= Len(combination) - 1} :
        LET normalized == _normalize_combination(DropAt(combination, i))
        IN ~IsNone(normalized) /\ Val(normalized) \in frequent_subsets

_subsets_are_frequent(combination, frequent_subsets) ==
    \A i \in DOMAIN combination :
        LET normalized == _normalize_combination(DropAt(combination, i))
        IN ~IsNone(normalized) /\ Val(normalized) \in frequent_subsets

\* mutant: isnull().all() instead of isnull().any()
HasNullAll(frame, attribute) == Range(Column(frame, attribute)) \subseteq {Null}

\* df[attribute].isnull().any()
HasNull(frame, attribute) == Null \in Range(Column(frame, attribute))

\* mutant: only the outlier group is required
GroupMissingOutliersOnly(n_outliers, n_inliers) == n_outliers = 0

\* one of the two groups is empty
GroupMissing(n_outliers, n_inliers) == n_outliers = 0 \/ n_inliers = 0

\* _prepare(df): the object after the call and the exception raised ("" if none)
_prepare(s, frame) ==
    LET cols == frame.columns
        resolved == SelectSeq(cols, LAMBDA col : col # s.outlier_column)
        s1 == IF IsNone(s.attributes) THEN [s EXCEPT !.attributes = Some(resolved)] ELSE s
        attrs == Val(s1.attributes)
        missing == SelectSeq(attrs, LAMBDA col : ~Contains(cols, col))
        mask == [i \in DOMAIN frame.rows |-> frame.rows[i][s.outlier_column] # 0]
        n_out == Cardinality({i \in DOMAIN mask : mask[i]})
        s2 == [s1 EXCEPT !.df_ = Some(frame),
                         !.outlier_mask_ = mask,
                         !.total_rows_ = Len(frame.rows),
                         !.n_outliers_ = n_out,
                         !.n_inliers_ = Len(frame.rows) - n_out]
        s3 == [s2 EXCEPT !.attribute_values_ =
                             [attr \in Range(attrs) |->
                                 SortedInts(Range(Column(frame, attr)))],
                         !.max_order = IF IsNone(s2.max_order)
                                       THEN Some(Len(attrs)) ELSE s2.max_order]
    IN IF ~Contains(cols, s.outlier_column)
       THEN [self |-> s, raised |-> "KeyError"]
       ELSE IF ~IsNone(s.attributes) /\ missing # <<>>
       THEN [self |-> s, raised |-> "KeyError"]
       ELSE IF \E i \in DOMAIN attrs : HasNull(frame, attrs[i])
       THEN [self |-> s1, raised |-> "ValueError"]
       ELSE IF GroupMissing(n_out, Len(frame.rows) - n_out)
       THEN [self |-> s2, raised |-> "ValueError"]
       ELSE [self |-> s3, raised |-> ""]

\* the sort key of _finalize: (metric or -inf, support_outliers, risk_difference)
SortKey(exp, metric_name) ==
    LET m == _metric_from_explanation(exp, metric_name)
    IN <<IF m = Zero THEN NegInf ELSE m, exp.support_outliers, exp.risk_difference>>

\* Python's order on the key tuples
KeyLt(k1, k2) ==
    \/ Lt(k1[1], k2[1])
    \/ k1[1] = k2[1] /\ Lt(k1[2], k2[2])
    \/ k1[1] = k2[1] /\ k1[2] = k2[2] /\ Lt(k1[3], k2[3])

\* list.sort(key=..., reverse=True): stable, descending.  An element goes
\* behind every element with a larger key and behind the earlier ones with an
\* equal key.
SortDescending(exps, metric_name) ==
    LET key == [i \in DOMAIN exps |-> SortKey(exps[i], metric_name)]
        pos == [i \in DOMAIN exps |->
                   1 + Cardinality({j \in DOMAIN exps :
                           \/ KeyLt(key[i], key[j])
                           \/ j < i /\ ~KeyLt(key[j], key[i])})]
    IN IF exps = <<>> THEN <<>>
       ELSE [p \in DOMAIN exps |-> exps[CHOOSE i \in DOMAIN exps : pos[i] = p]]

\* Python's seq[:n]
SliceTo(seq, n) ==
    IF n >= 0 THEN SubSeq(seq, 1, IF n < Len(seq) THEN n ELSE Len(seq))
    ELSE SubSeq(seq, 1, IF Len(seq) + n > 0 THEN Len(seq) + n ELSE 0)

\* _finalize up to the sort; raises ValueError for an unsupported metric name
\* as soon as there is an explanation to look at
FinalizeRaises(s, exps) == exps # <<>> /\ s.ratio_metric \notin SupportedMetrics

Ranked(s, exps) == SortDescending(exps, s.ratio_metric)

\* mutant: `if self.top_k:` instead of `if self.top_k is not None:`
_finalize_truthy_top_k(s, exps) ==
    IF IsNone(s.top_k) \/ Val(s.top_k) = 0 THEN Ranked(s, exps)
    ELSE SliceTo(Ranked(s, exps), Val(s.top_k))

_finalize(s, exps) ==
    IF IsNone(s.top_k) THEN Ranked(s, exps) ELSE SliceTo(Ranked(s, exps), Val(s.top_k))

-----------------------------------------------------------------------------
(* The loops of the strategies *)

\* for attribute in self.attributes or []: for value in self._attribute_values[attribute]
RECURSIVE SingletonPairs(_, _)
SingletonPairs(s, attrs) ==
    IF attrs = <<>> THEN <<>>
    ELSE LET attribute == Head(attrs)
             values == s.attribute_values_[attribute]
         IN [i \in DOMAIN values |-> <<attribute, values[i]>>]
            \o SingletonPairs(s, Tail(attrs))

\* the singleton combinations that reach _compute_metrics, in loop order
Singletons(s) ==
    LET pairs == SingletonPairs(s, AttributesOrEmpty(s))
        normalized == [i \in DOMAIN pairs |-> _normalize_combination(<<pairs[i]>>)]
        kept == SelectSeq(normalized,
                    LAMBDA c : ~IsNone(c) /\ _is_valid_combination(s, Val(c)))
    IN [i \in DOMAIN kept |-> Val(kept[i])]

\* The body shared by the loops over candidates: compute the metrics, drop the
\* combination if it lacks support, emit it if it satisfies the ratio, keep it
\* as frequent.  acc: explanations, frequent (combination, metrics) pairs,
\* the combinations evaluated, and whether _metric_value raised.
RECURSIVE ScanCandidates(_, _, _)
ScanCandidates(s, candidates, acc) ==
    IF candidates = <<>> \/ acc.raised THEN acc
    ELSE IF Len(candidates) > 1
    THEN \* the loop over the first half, then over the second
         LET half == Len(candidates) \div 2
         IN ScanCandidates(s, SubSeq(candidates, half + 1, Len(candidates)),
                ScanCandidates(s, SubSeq(candidates, 1, half), acc))
    ELSE LET combination == Head(candidates)
             metrics == _compute_metrics(s, combination)
             seen == [acc EXCEPT !.evaluated = Append(@, combination)]
         IN IF ~_has_min_support(s, metrics)
            THEN ScanCandidates(s, Tail(candidates), seen)
            ELSE IF s.ratio_metric \notin SupportedMetrics
            THEN [seen EXCEPT !.raised = TRUE]
            ELSE ScanCandidates(s, Tail(candidates),
                    [seen EXCEPT
                        !.explanations =
                            IF _satisfies_ratio(s, metrics)
                            THEN Append(@, _build_explanation(combination, metrics))
                            ELSE @,
                        !.frequent = Append(@, [combination |-> combination,
                                                metrics |-> metrics])])

\* AprioriSummarizer._generate_candidates
_generate_candidates(s, previous_level, level) ==
    LET previous_set == Range(previous_level)
        Prefix(c) == SubSeq(c, 1, Len(c) - 1)
        LastOf(c) == SubSeq(c, Len(c), Len(c))
        merged(i, j) == _normalize_combination(previous_level[i] \o LastOf(previous_level[j]))
        candidates ==
            {Val(merged(ij[1], ij[2])) :
                ij \in {p \in (DOMAIN previous_level) \X (DOMAIN previous_level) :
                    /\ p[1] < p[2]
                    /\ Prefix(previous_level[p[1]]) = Prefix(previous_level[p[2]])
                    /\ ~IsNone(merged(p[1], p[2]))
                    /\ _is_valid_combination(s, Val(merged(p[1], p[2])))
                    /\ _subsets_are_frequent(Val(merged(p[1], p[2])), previous_set)}}
    IN SortedCombs(candidates)

\* heap entries are (-(score or 0.0), combination, metrics) tuples
HeapItem(s, combination, metrics) ==
    [score |-> Neg(_metric_value(s, metrics)),
     combination |-> combination,
     metrics |-> metrics]

HeapLt(x, y) ==
    \/ Lt(x.score, y.score)
    \/ x.score = y.score /\ CombLt(x.combination, y.combination)

\* the order in which heappop returns the entries pushed: smallest first
PopOrder(items) ==
    LET pos == [i \in DOMAIN items |->
                   1 + Cardinality({j \in DOMAIN items :
                           \/ HeapLt(items[j], items[i])
                           \/ j > i /\ ~HeapLt(items[i], items[j])})]
    IN IF items = <<>> THEN <<>>
       ELSE [p \in DOMAIN items |-> items[CHOOSE i \in DOMAIN items : pos[i] = p]]

\* mutant: the whole heap is kept as the beam
BeamOfAll(s, heap) == heap

\* mutant: the beam keeps the entries popped last
BeamOfTail(s, heap) ==
    LET n == IF s.beam_width < Len(heap) THEN s.beam_width ELSE Len(heap)
    IN IF n <= 0 THEN <<>> ELSE SubSeq(heap, Len(heap) - n + 1, Len(heap))

\* range(min(self.beam_width, len(heap))) pops
BeamOf(s, heap) ==
    LET n == IF s.beam_width < Len(heap) THEN s.beam_width ELSE Len(heap)
    IN IF n <= 0 THEN <<>> ELSE SubSeq(heap, 1, n)

\* combination + ((attribute, value),) for every attribute the combination lacks
RECURSIVE AppendedPairs(_, _, _)
AppendedPairs(s, combination, attrs) ==
    IF attrs = <<>> THEN <<>>
    ELSE LET attribute == Head(attrs)
             values == s.attribute_values_[attribute]
             here == IF attribute \in CombAttrs(combination) THEN <<>>
                     ELSE [i \in DOMAIN values |->
                              combination \o << <<attribute, values[i]>> >>]
         IN here \o AppendedPairs(s, combination, Tail(attrs))

RECURSIVE Proposals(_, _)
Proposals(s, next_candidates) ==
    IF next_candidates = <<>> THEN <<>>
    ELSE AppendedPairs(s, Head(next_candidates).combination, AttributesOrEmpty(s))
         \o Proposals(s, Tail(next_candidates))

\* mutant: the expansion loop without the visited test
RECURSIVE ExpandLoopNoVisited(_, _, _)
ExpandLoopNoVisited(s, proposals, acc) ==
    IF proposals = <<>> \/ acc.raised THEN acc
    ELSE IF Len(proposals) > 1
    THEN \* the loop over the first half, then over the second
         LET half == Len(proposals) \div 2
         IN ExpandLoopNoVisited(s, SubSeq(proposals, half + 1, Len(proposals)),
                ExpandLoopNoVisited(s, SubSeq(proposals, 1, half), acc))
    ELSE LET new_comb == _normalize_combination(Head(proposals))
             rest == Tail(proposals)
         IN IF IsNone(new_comb) THEN ExpandLoopNoVisited(s, rest, acc)
            ELSE IF ~_is_valid_combination(s, Val(new_comb))
            THEN ExpandLoopNoVisited(s, rest, acc)
            ELSE LET metrics == _compute_metrics(s, Val(new_comb))
                     seen == [acc EXCEPT !.evaluated = Append(@, Val(new_comb))]
                 IN IF ~_has_min_support(s, metrics) THEN ExpandLoopNoVisited(s, rest, seen)
                    ELSE IF s.ratio_metric \notin SupportedMetrics
                    THEN [seen EXCEPT !.raised = TRUE]
                    ELSE ExpandLoopNoVisited(s, rest,
                            [seen EXCEPT
                                !.explanations =
                                    IF _satisfies_ratio(s, metrics)
                                    THEN Append(@, _build_explanation(Val(new_comb), metrics))
                                    ELSE @,
                                !.expansions =
                                    Append(@, [score |-> Neg(_metric_value(s, metrics)),
                                               combination |-> Val(new_comb),
                                               metrics |-> metrics]),
                                !.visited = @ \cup {Val(new_comb)}])

\* mutant: the expansion loop emits every frequent combination, whatever its ratio
RECURSIVE ExpandLoopNoRatio(_, _, _)
ExpandLoopNoRatio(s, proposals, acc) ==
    IF proposals = <<>> \/ acc.raised THEN acc
    ELSE IF Len(proposals) > 1
    THEN LET half == Len(proposals) \div 2
         IN ExpandLoopNoRatio(s, SubSeq(proposals, half + 1, Len(proposals)),
                ExpandLoopNoRatio(s, SubSeq(proposals, 1, half), acc))
    ELSE LET new_comb == _normalize_combination(Head(proposals))
             rest == Tail(proposals)
         IN IF IsNone(new_comb) THEN ExpandLoopNoRatio(s, rest, acc)
            ELSE IF Val(new_comb) \in acc.visited THEN ExpandLoopNoRatio(s, rest, acc)
            ELSE IF ~_is_valid_combination(s, Val(new_comb))
            THEN ExpandLoopNoRatio(s, rest, acc)
            ELSE LET metrics == _compute_metrics(s, Val(new_comb))
                     seen == [acc EXCEPT !.evaluated = Append(@, Val(new_comb))]
                 IN IF ~_has_min_support(s, metrics) THEN ExpandLoopNoRatio(s, rest, seen)
                    ELSE IF s.ratio_metric \notin SupportedMetrics
                    THEN [seen EXCEPT !.raised = TRUE]
                    ELSE ExpandLoopNoRatio(s, rest,
                            [seen EXCEPT
                                !.explanations =
                                    Append(@, _build_explanation(Val(new_comb), metrics)),
                                !.expansions =
                                    Append(@, HeapItem(s, Val(new_comb), metrics)),
                                !.visited = @ \cup {Val(new_comb)}])

\* the expansion loop of HeuristicSummarizer._run over the proposals
RECURSIVE ExpandLoop(_, _, _)
ExpandLoop(s, proposals, acc) ==
    IF proposals = <<>> \/ acc.raised THEN acc
    ELSE IF Len(proposals) > 1
    THEN \* the loop over the first half, then over the second
         LET half == Len(proposals) \div 2
         IN ExpandLoop(s, SubSeq(proposals, half + 1, Len(proposals)),
                ExpandLoop(s, SubSeq(proposals, 1, half), acc))
    ELSE LET new_comb == _normalize_combination(Head(proposals))
             rest == Tail(proposals)
         IN IF IsNone(new_comb) THEN ExpandLoop(s, rest, acc)
            ELSE IF Val(new_comb) \in acc.visited THEN ExpandLoop(s, rest, acc)
            ELSE IF ~_is_valid_combination(s, Val(new_comb)) THEN ExpandLoop(s, rest, acc)
            ELSE LET metrics == _compute_metrics(s, Val(new_comb))
                     seen == [acc EXCEPT !.evaluated = Append(@, Val(new_comb))]
                 IN IF ~_has_min_support(s, metrics) THEN ExpandLoop(s, rest, seen)
                    ELSE IF s.ratio_metric \notin SupportedMetrics
                    THEN [seen EXCEPT !.raised = TRUE]
                    ELSE ExpandLoop(s, rest,
                            [seen EXCEPT
                                !.explanations =
                                    IF _satisfies_ratio(s, metrics)
                                    THEN Append(@, _build_explanation(Val(new_comb), metrics))
                                    ELSE @,
                                !.expansions =
                                    Append(@, HeapItem(s, Val(new_comb), metrics)),
                                !.visited = @ \cup {Val(new_comb)}])

-----------------------------------------------------------------------------
(* Inputs: the frames handed to explain and the values handed to the setters *)

FrameColumns == <<"a", "b", "is_outlier">>

Row(a, b, is_outlier) ==
    [col \in Range(FrameColumns) |->
        CASE col = "a" -> a [] col = "b" -> b [] col = "is_outlier" -> is_outlier]

\* the rows a frame is made of: every pair of attribute values, outlier or not,
\* and one row whose cell in column b is missing
RowTypes ==
    {Row(t[1], t[2], t[3]) : t \in AttrValues \X AttrValues \X {0, 1}}
    \cup {Row(1, Null, 0)}

RowCode(r) == r["a"] * 6 + r["b"] * 2 + r["is_outlier"]

\* Frames of at most MaxRows rows.  _prepare and _compute_metrics read a frame
\* through unique(), sum() and masks only, none of which depends on the order
\* of the rows, so one order of each multiset of rows is drawn.
Frames ==
    {[columns |-> FrameColumns, rows |-> rows] :
        rows \in UNION {{f \in [1..n -> RowTypes] :
                            \A i \in 1..(n - 1) : RowCode(f[i]) <= RowCode(f[i + 1])} :
                        n \in 0..MaxRows}}

\* frames for a further call on the object: four that lack column b, two that
\* have the columns of the frames above
NarrowColumns == <<"a", "is_outlier">>

NarrowRow(a, is_outlier) ==
    [col \in Range(NarrowColumns) |-> IF col = "a" THEN a ELSE is_outlier]

OtherFrames ==
    {[columns |-> NarrowColumns, rows |-> <<NarrowRow(v, 1), NarrowRow(w, 0)>>] :
        v \in AttrValues, w \in AttrValues}
    \cup {[columns |-> FrameColumns, rows |-> <<Row(1, 1, 1), Row(2, 2, 0)>>],
          [columns |-> FrameColumns, rows |-> <<Row(1, 2, 1), Row(1, 2, 0)>>]}

\* frames with three attribute columns and no missing cell, of at most MaxRows
\* rows, one order of each multiset of rows
WideColumns == <<"a", "b", "c", "is_outlier">>

WideRow(a, b, c, is_outlier) ==
    [col \in Range(WideColumns) |->
        CASE col = "a" -> a [] col = "b" -> b [] col = "c" -> c
          [] col = "is_outlier" -> is_outlier]

WideRowTypes ==
    {WideRow(t[1], t[2], t[3], t[4]) : t \in AttrValues \X AttrValues \X AttrValues \X {0, 1}}

WideRowCode(r) == r["a"] * 12 + r["b"] * 4 + r["c"] * 2 + r["is_outlier"]

WideFrames ==
    {[columns |-> WideColumns, rows |-> rows] :
        rows \in UNION {{f \in [1..n -> WideRowTypes] :
                            \A i \in 1..(n - 1) : WideRowCode(f[i]) <= WideRowCode(f[i + 1])} :
                        n \in 0..MaxRows}}

\* the frames of three attributes in which column c holds the value 1 only
DeepFrames ==
    {frame \in WideFrames : \A i \in DOMAIN frame.rows : frame.rows[i]["c"] = 1}

\* The sample frame of the tests.  A cell holds the rank of its string among
\* the strings of its column, in Python's string order; cells of different
\* columns are never compared.
Region == [ASIA |-> 1, EU |-> 2, US |-> 3]
Browser == [Chrome |-> 1, Firefox |-> 2, Safari |-> 3]
Segment == [A |-> 1, B |-> 2]
Zip == ("100-0001" :> 1) @@ ("75001" :> 2) @@ ("94107" :> 3)

SampleColumns == <<"region", "browser", "segment", "zip", "is_outlier">>

SampleRow(region, browser, segment, zip, is_outlier) ==
    [col \in Range(SampleColumns) |->
        CASE col = "region" -> region [] col = "browser" -> browser
          [] col = "segment" -> segment [] col = "zip" -> zip
          [] col = "is_outlier" -> is_outlier]

build_sample_frame ==
    [columns |-> SampleColumns,
     rows |-> <<
        SampleRow(Region.US, Browser.Chrome, Segment.A, Zip["94107"], 1),
        SampleRow(Region.US, Browser.Chrome, Segment.A, Zip["94107"], 1),
        SampleRow(Region.US, Browser.Chrome, Segment.B, Zip["94107"], 1),
        SampleRow(Region.US, Browser.Firefox, Segment.B, Zip["94107"], 1),
        SampleRow(Region.US, Browser.Chrome, Segment.A, Zip["94107"], 0),
        SampleRow(Region.US, Browser.Chrome, Segment.B, Zip["94107"], 0),
        SampleRow(Region.US, Browser.Safari, Segment.A, Zip["94107"], 0),
        SampleRow(Region.US, Browser.Firefox, Segment.B, Zip["94107"], 0),
        SampleRow(Region.EU, Browser.Chrome, Segment.A, Zip["75001"], 0),
        SampleRow(Region.EU, Browser.Chrome, Segment.B, Zip["75001"], 0),
        SampleRow(Region.EU, Browser.Firefox, Segment.B, Zip["75001"], 0),
        SampleRow(Region.ASIA, Browser.Chrome, Segment.A, Zip["100-0001"], 0),
        SampleRow(Region.ASIA, Browser.Chrome, Segment.B, Zip["100-0001"], 0),
        SampleRow(Region.ASIA, Browser.Safari, Segment.B, Zip["100-0001"], 0)>>]

\* frames for an invocation that runs while another one is in progress
ConcurrentFrames == {frame \in OtherFrames : frame.columns = FrameColumns}

MinSupportChoices == {Frac(1, 2), Frac(3, 4)}
MinRatioChoices == {Frac(-1, 1), Frac(2, 1)}
RatioMetricChoices == {"risk_difference", "support_outliers", "support_total", "lift"}
\* attribute lists name each attribute once; column c is in no frame
AttributeChoices == {<<"b", "a">>, <<"a", "c">>}
OutlierColumnChoices == {"flag"}
MaxOrderChoices == {-1, 0, 1}
\* top_k is None or a count
TopKChoices == {None, Some(0), Some(2)}
FdChoices == {[determinant \in {"a"} |-> {"b"}], [determinant \in {"b"} |-> {"a"}]}
BeamWidthChoices == {0, 1}

-----------------------------------------------------------------------------
(* The state machine *)

\* BatchSummarizer.__init__ and HeuristicSummarizer.__init__ with their defaults
Constructed ==
    [min_support |-> Frac(1, 10),
     min_ratio_metric |-> Frac(1, 1),
     ratio_metric |-> "risk_ratio",
     attributes |-> None,
     outlier_column |-> "is_outlier",
     max_order |-> None,
     top_k |-> Some(20),
     functional_dependencies |-> <<>>,
     use_fd_hints |-> FALSE,
     beam_width |-> 10,
     df_ |-> None,
     outlier_mask_ |-> <<>>,
     n_outliers_ |-> 0,
     n_inliers_ |-> 0,
     total_rows_ |-> 0,
     attribute_values_ |-> <<>>]

\* a summarizer just constructed, of either class
InitSummarizer ==
    /\ kind \in {"apriori", "heuristic"}
    /\ self = Constructed
    /\ pc = "idle"
    /\ df = None
    /\ explanations = <<>>
    /\ level_itemsets = <<>>
    /\ k = 0
    /\ candidate_heap = <<>>
    /\ visited = {}
    /\ current_depth = 0
    /\ result = <<>>
    /\ err = ""
    /\ evaluated = <<>>
    /\ ranked = <<>>
    /\ last = None
    /\ nSet = 0
    /\ nCalls = 0
    /\ configured = Constructed
    /\ other = [pc |-> "idle", df |-> None, result |-> <<>>, err |-> ""]

\* no component has been used yet
InitComponents ==
    /\ ct = None
    /\ bundle = None
    /\ norm = None
    /\ filt = None
    /\ fdep = None
    /\ clf = None

Init ==
    /\ InitSummarizer
    /\ InitComponents

callLocals == <<df, explanations, level_itemsets, k, candidate_heap, visited,
                current_depth, result, err, evaluated, ranked, last, nCalls, other, componentVars>>

\* The summarizer of the scenario tests, built with keyword arguments:
\* min_support=0.2, min_ratio_metric=2.0, max_order=3, beam_width=5 (heuristic),
\* with or without the FD hint region -> zip
construct_scenario ==
    /\ pc = "idle" /\ nSet = 0 /\ self = Constructed
    /\ \E hints \in BOOLEAN :
          /\ self' = [Constructed EXCEPT
                        !.min_support = Frac(1, 5),
                        !.min_ratio_metric = Frac(2, 1),
                        !.max_order = Some(3),
                        !.beam_width = IF kind = "heuristic" THEN 5 ELSE @,
                        !.functional_dependencies =
                            IF hints THEN [determinant \in {"region"} |-> {"zip"}] ELSE @,
                        !.use_fd_hints = hints]
          /\ configured' = self'
    /\ UNCHANGED <<kind, pc, nSet, callLocals>>

\* a fluent setter: assigns one field and returns self
Configure(field, value) ==
    /\ pc = "idle"
    /\ nSet < MaxSetterCalls
    /\ self' = [self EXCEPT ![field] = value]
    /\ nSet' = nSet + 1
    /\ configured' = [configured EXCEPT ![field] = value]
    /\ UNCHANGED <<kind, pc, callLocals>>

set_min_support == \E value \in MinSupportChoices : Configure("min_support", value)
set_min_ratio_metric == \E value \in MinRatioChoices : Configure("min_ratio_metric", value)
set_ratio_metric == \E metric \in RatioMetricChoices : Configure("ratio_metric", metric)
set_attributes == \E attributes \in AttributeChoices : Configure("attributes", Some(attributes))
set_outlier_column == \E column \in OutlierColumnChoices : Configure("outlier_column", column)
set_max_order == \E max_order \in MaxOrderChoices : Configure("max_order", Some(max_order))
set_top_k == \E top_k \in TopKChoices : Configure("top_k", top_k)
set_functional_dependencies ==
    \E functional_dependencies \in FdChoices :
        Configure("functional_dependencies", functional_dependencies)
enable_fd_hints == Configure("use_fd_hints", TRUE)
set_beam_width ==
    /\ kind = "heuristic"
    /\ \E width \in BeamWidthChoices : Configure("beam_width", width)

\* explain(df) up to the return of _prepare
StartCall(frame) ==
    LET prepared == _prepare(self, frame)
    IN /\ nCalls < MaxCalls
       /\ nCalls' = nCalls + 1
       /\ df' = Some(frame)
       /\ self' = prepared.self
       /\ pc' = IF prepared.raised = "" THEN "run" ELSE "raised"
       /\ err' = prepared.raised
       /\ explanations' = <<>>
       /\ level_itemsets' = <<>>
       /\ k' = 0
       /\ candidate_heap' = <<>>
       /\ visited' = {}
       /\ current_depth' = 0
       /\ result' = <<>>
       /\ evaluated' = <<>>
       /\ ranked' = <<>>
       /\ UNCHANGED <<kind, nSet, configured, other, componentVars>>

\* the first explain call of the object
explain ==
    /\ pc = "idle"
    /\ \E frame \in Frames : StartCall(frame)
    /\ UNCHANGED last

\* the first explain call of the object, on a frame of three attributes
explain_wide ==
    /\ pc = "idle"
    /\ \E frame \in WideFrames : StartCall(frame)
    /\ UNCHANGED last

\* the first explain call of the object, on a frame of three attributes whose
\* third column holds one value
explain_deep ==
    /\ pc = "idle"
    /\ \E frame \in DeepFrames : StartCall(frame)
    /\ UNCHANGED last

\* the first explain call of the object, on the sample frame
explain_sample ==
    /\ pc = "idle"
    /\ StartCall(build_sample_frame)
    /\ UNCHANGED last

\* a further explain call on the same object, with the same frame
explain_again ==
    /\ pc \in {"done", "raised"}
    /\ last' = Some([df |-> Val(df), outcome |-> pc, result |-> result, err |-> err])
    /\ StartCall(Val(df))

\* a further explain call on the same object, with another frame
explain_other ==
    /\ pc \in {"done", "raised"}
    /\ last' = Some([df |-> Val(df), outcome |-> pc, result |-> result, err |-> err])
    /\ \E frame \in OtherFrames : StartCall(frame)

\* mutant: the list of explanations is kept from the previous call
StaleScan ==
    [explanations |-> IF IsNone(last) THEN <<>> ELSE Val(last).result,
     frequent |-> <<>>, evaluated |-> <<>>, raised |-> FALSE]

\* the empty lists _run starts from
EmptyScan == [explanations |-> <<>>, frequent |-> <<>>, evaluated |-> <<>>, raised |-> FALSE]

\* _run raised ValueError (unsupported ratio metric)
Raise(acc) ==
    /\ pc' = "raised"
    /\ err' = "ValueError"
    /\ explanations' = acc.explanations
    /\ evaluated' = acc.evaluated
    /\ UNCHANGED <<level_itemsets, k, candidate_heap, visited, current_depth, result, ranked>>

\* AprioriSummarizer._run, lines 18-35: the frequent singletons
apriori_singletons ==
    /\ kind = "apriori" /\ pc = "run"
    /\ LET acc == ScanCandidates(self, Singletons(self), EmptyScan)
       IN IF acc.raised THEN Raise(acc)
          ELSE /\ explanations' = acc.explanations
               /\ level_itemsets' = acc.frequent
               /\ evaluated' = acc.evaluated
               /\ k' = 2
               /\ pc' = "levels"
               /\ UNCHANGED <<candidate_heap, visited, current_depth, result, err, ranked>>
    /\ UNCHANGED <<kind, self, df, last, nSet, nCalls, configured, other, componentVars>>

\* AprioriSummarizer._run, lines 36-48: one pass of the while loop
apriori_level ==
    /\ kind = "apriori" /\ pc = "levels"
    /\ level_itemsets # <<>> /\ k <= OrderLimit(self)
    /\ LET previous == [i \in DOMAIN level_itemsets |-> level_itemsets[i].combination]
           candidates == _generate_candidates(self, previous, k)
           acc == ScanCandidates(self, candidates,
                      [EmptyScan EXCEPT !.explanations = explanations,
                                        !.evaluated = evaluated])
       IN IF acc.raised THEN Raise(acc)
          ELSE /\ explanations' = acc.explanations
               /\ level_itemsets' = acc.frequent
               /\ evaluated' = acc.evaluated
               /\ k' = k + 1
               /\ UNCHANGED <<pc, candidate_heap, visited, current_depth, result, err, ranked>>
    /\ UNCHANGED <<kind, self, df, last, nSet, nCalls, configured, other, componentVars>>

\* explain, line 114: _finalize(explanations) once _run has returned
Finalize ==
    IF FinalizeRaises(self, explanations)
    THEN /\ pc' = "raised"
         /\ err' = "ValueError"
         /\ UNCHANGED <<result, ranked>>
    ELSE /\ pc' = "done"
         /\ ranked' = Ranked(self, explanations)
         /\ result' = _finalize(self, explanations)
         /\ err' = ""

apriori_return ==
    /\ kind = "apriori" /\ pc = "levels"
    /\ ~(level_itemsets # <<>> /\ k <= OrderLimit(self))
    /\ Finalize
    /\ UNCHANGED <<kind, self, df, explanations, level_itemsets, k, candidate_heap,
                   visited, current_depth, evaluated, last, nSet, nCalls, configured, other,
                   componentVars>>

\* HeuristicSummarizer._run, lines 26-46: the seeds
heuristic_seed ==
    /\ kind = "heuristic" /\ pc = "run"
    /\ LET acc == ScanCandidates(self, Singletons(self), EmptyScan)
           pushed == [i \in DOMAIN acc.frequent |->
                         HeapItem(self, acc.frequent[i].combination, acc.frequent[i].metrics)]
       IN IF acc.raised THEN Raise(acc)
          ELSE /\ explanations' = acc.explanations
               /\ candidate_heap' = PopOrder(pushed)
               /\ visited' = {pushed[i].combination : i \in DOMAIN pushed}
               /\ evaluated' = acc.evaluated
               /\ current_depth' = 1
               /\ pc' = "beam"
               /\ UNCHANGED <<level_itemsets, k, result, err, ranked>>
    /\ UNCHANGED <<kind, self, df, last, nSet, nCalls, configured, other, componentVars>>

\* HeuristicSummarizer._run, lines 47-83: one pass of the while loop
heuristic_depth ==
    /\ kind = "heuristic" /\ pc = "beam"
    /\ candidate_heap # <<>> /\ current_depth < OrderLimit(self)
    /\ LET next_candidates == BeamOf(self, candidate_heap)
           acc == ExpandLoop(self, Proposals(self, next_candidates),
                      [explanations |-> explanations, expansions |-> <<>>,
                       visited |-> visited, evaluated |-> evaluated, raised |-> FALSE])
       IN IF acc.raised THEN Raise(acc)
          ELSE /\ explanations' = acc.explanations
               /\ candidate_heap' = BeamOf(self, PopOrder(acc.expansions))
               /\ visited' = acc.visited
               /\ evaluated' = acc.evaluated
               /\ current_depth' = current_depth + 1
               /\ UNCHANGED <<pc, level_itemsets, k, result, err, ranked>>
    /\ UNCHANGED <<kind, self, df, last, nSet, nCalls, configured, other, componentVars>>

heuristic_return ==
    /\ kind = "heuristic" /\ pc = "beam"
    /\ ~(candidate_heap # <<>> /\ current_depth < OrderLimit(self))
    /\ Finalize
    /\ UNCHANGED <<kind, self, df, explanations, level_itemsets, k, candidate_heap,
                   visited, current_depth, evaluated, last, nSet, nCalls, configured, other,
                   componentVars>>

\* AprioriSummarizer._run, lines 36-48: the while loop as a whole
RECURSIVE AprioriLevels(_, _, _)
AprioriLevels(s, level, acc) ==
    IF acc.raised \/ acc.frequent = <<>> \/ level > OrderLimit(s) THEN acc
    ELSE LET previous == [i \in DOMAIN acc.frequent |-> acc.frequent[i].combination]
             candidates == _generate_candidates(s, previous, level)
         IN AprioriLevels(s, level + 1,
                ScanCandidates(s, candidates,
                    [EmptyScan EXCEPT !.explanations = acc.explanations,
                                      !.evaluated = acc.evaluated]))

\* AprioriSummarizer._run as one step
AprioriRun(s) == AprioriLevels(s, 2, ScanCandidates(s, Singletons(s), EmptyScan))

\* HeuristicSummarizer._run, lines 47-83: the while loop as a whole
RECURSIVE HeuristicDepths(_, _, _, _)
HeuristicDepths(s, heap, depth, acc) ==
    IF acc.raised \/ heap = <<>> \/ depth >= OrderLimit(s) THEN acc
    ELSE LET expanded == ExpandLoop(s, Proposals(s, BeamOf(s, heap)),
                             [acc EXCEPT !.expansions = <<>>])
         IN HeuristicDepths(s, BeamOf(s, PopOrder(expanded.expansions)), depth + 1, expanded)

\* HeuristicSummarizer._run as one step
HeuristicRun(s) ==
    LET seeds == ScanCandidates(s, Singletons(s), EmptyScan)
        pushed == [i \in DOMAIN seeds.frequent |->
                      HeapItem(s, seeds.frequent[i].combination, seeds.frequent[i].metrics)]
    IN IF seeds.raised THEN seeds
       ELSE HeuristicDepths(s, PopOrder(pushed), 1,
                [explanations |-> seeds.explanations, expansions |-> <<>>,
                 visited |-> {pushed[i].combination : i \in DOMAIN pushed},
                 evaluated |-> seeds.evaluated, raised |-> FALSE])

\* explain(df) as one step on an object s of class cls: how the call ends
ExplainOutcome(cls, s, frame) ==
    LET prepared == _prepare(s, frame)
        run == IF cls = "apriori" THEN AprioriRun(prepared.self)
                                  ELSE HeuristicRun(prepared.self)
    IN IF prepared.raised # ""
       THEN [outcome |-> "raised", result |-> <<>>, err |-> prepared.raised]
       ELSE IF run.raised \/ FinalizeRaises(prepared.self, run.explanations)
       THEN [outcome |-> "raised", result |-> <<>>, err |-> "ValueError"]
       ELSE [outcome |-> "done", result |-> _finalize(prepared.self, run.explanations),
             err |-> ""]

\* A second invocation of explain on the same object, started while the first
\* is between _prepare and its return: explain up to the return of _prepare
other_prepare ==
    /\ pc \in {"run", "levels", "beam"}
    /\ other.pc = "idle"
    /\ \E frame \in ConcurrentFrames :
          LET prepared == _prepare(self, frame)
          IN /\ self' = prepared.self
             /\ other' = [pc |-> IF prepared.raised = "" THEN "run" ELSE "raised",
                          df |-> Some(frame), result |-> <<>>, err |-> prepared.raised]
    /\ UNCHANGED <<kind, pc, df, explanations, level_itemsets, k, candidate_heap, visited,
                   current_depth, result, err, evaluated, ranked, last, nSet, nCalls,
                   configured, componentVars>>

\* the second invocation from _run to its return
other_run ==
    /\ other.pc = "run"
    /\ LET run == IF kind = "apriori" THEN AprioriRun(self) ELSE HeuristicRun(self)
       IN other' =
            IF run.raised \/ FinalizeRaises(self, run.explanations)
            THEN [other EXCEPT !.pc = "raised", !.err = "ValueError"]
            ELSE [other EXCEPT !.pc = "done", !.result = _finalize(self, run.explanations)]
    /\ UNCHANGED <<kind, self, pc, df, explanations, level_itemsets, k, candidate_heap,
                   visited, current_depth, result, err, evaluated, ranked, last, nSet,
                   nCalls, configured, componentVars>>

\* the steps of one explain call
Call ==
    \/ explain
    \/ apriori_singletons
    \/ apriori_level
    \/ apriori_return
    \/ heuristic_seed
    \/ heuristic_depth
    \/ heuristic_return

Next ==
    \/ set_min_support
    \/ set_min_ratio_metric
    \/ set_ratio_metric
    \/ set_attributes
    \/ set_outlier_column
    \/ set_max_order
    \/ set_top_k
    \/ set_functional_dependencies
    \/ enable_fd_hints
    \/ set_beam_width
    \/ explain_again
    \/ explain_other
    \/ other_prepare
    \/ other_run
    \/ explain_wide
    \/ explain_deep
    \/ construct_scenario
    \/ explain_sample
    \/ Call

\* every setter, repeated calls
Spec == Init /\ [][Next]_vars

\* the object configured through its thresholds and its ratio metric
NextThresholds ==
    \/ set_min_support
    \/ set_min_ratio_metric
    \/ set_ratio_metric
    \/ Call

SpecThresholds == Init /\ [][NextThresholds]_vars

\* the object configured through top_k and the ratio threshold
NextRanking ==
    \/ set_top_k
    \/ set_min_ratio_metric
    \/ Call

SpecRanking == Init /\ [][NextRanking]_vars

\* the object configured through max_order and the FD hints
NextSearch ==
    \/ set_max_order
    \/ set_functional_dependencies
    \/ enable_fd_hints
    \/ Call

SpecSearch == Init /\ [][NextSearch]_vars

\* the object configured through its attribute list and its outlier column
NextInputs ==
    \/ set_attributes
    \/ set_outlier_column
    \/ Call

SpecInputs == Init /\ [][NextInputs]_vars

\* repeated explain calls on one object
NextRepeat ==
    \/ set_attributes
    \/ set_min_ratio_metric
    \/ explain_again
    \/ Call

SpecRepeat == Init /\ [][NextRepeat]_vars

\* two explain calls on one object, the second with another frame
NextStateless ==
    \/ set_attributes
    \/ explain_other
    \/ Call

SpecStateless == Init /\ [][NextStateless]_vars

\* two explain invocations on one object, interleaved
NextInterleaved ==
    \/ other_prepare
    \/ other_run
    \/ Call

SpecInterleaved == Init /\ [][NextInterleaved]_vars

\* the exhaustive search over three attributes
NextLevels ==
    \/ explain_wide
    \/ apriori_singletons
    \/ apriori_level
    \/ apriori_return

SpecLevels == Init /\ [][NextLevels]_vars

\* the scenarios of the tests on the sample frame
NextScenario ==
    \/ construct_scenario
    \/ set_top_k
    \/ set_ratio_metric
    \/ explain_sample
    \/ apriori_singletons
    \/ apriori_level
    \/ apriori_return
    \/ heuristic_seed
    \/ heuristic_depth
    \/ heuristic_return

SpecScenario == Init /\ [][NextScenario]_vars

\* the object configured through the limits of the search
NextLimits ==
    \/ set_max_order
    \/ set_beam_width
    \/ Call

SpecLimits == Init /\ [][NextLimits]_vars

-----------------------------------------------------------------------------
(* Metrics engine: macrobase_py/metrics/core.py.                            *)
(* A count is a Python float: here (n / d) * 2^e with n and d odd, so that  *)
(* the magnitude of a weight is kept apart from its exact significand.      *)
(* Rounding of the significand to 53 bits is left out; rounding at the ends *)
(* of the exponent range (underflow to 0.0, overflow to inf) and the loss   *)
(* of a small term next to a large one are kept.                            *)

MaxCount == 1

\* binary64: exponent of the smallest positive value, of the largest finite
\* value, and the bits of a significand
MinExp == -1074
MaxExp == 1023
Precision == 53

FZero == [n |-> 0, d |-> 1, e |-> 0]
FInf == [n |-> 1, d |-> 0, e |-> 0]

\* the outcome of a float division by zero (ZeroDivisionError), which every
\* later operation hands on
ZeroDivisionError == [n |-> 0, d |-> 0, e |-> 0]
Raises(x) == x = ZeroDivisionError

RECURSIVE Pow2(_)
Pow2(i) == IF i = 0 THEN 1 ELSE 2 * Pow2(i - 1)

\* the odd part of a positive integer and the power of two taken out of it
RECURSIVE TwoAdic(_)
TwoAdic(i) ==
    IF i % 2 = 1 THEN [odd |-> i, exp |-> 0]
    ELSE LET rest == TwoAdic(i \div 2) IN [odd |-> rest.odd, exp |-> rest.exp + 1]

\* the float nearest to (n / d) * 2^e, d > 0
Fl(n, d, e) ==
    IF n = 0 THEN FZero
    ELSE LET g == Gcd(Abs(n), d)
             num == TwoAdic(Abs(n) \div g)
             den == TwoAdic(d \div g)
             exp == e + num.exp - den.exp
         IN IF exp < MinExp THEN FZero
            ELSE IF exp > MaxExp THEN [n |-> (IF n < 0 THEN -1 ELSE 1), d |-> 0, e |-> 0]
            ELSE [n |-> (IF n < 0 THEN -num.odd ELSE num.odd), d |-> den.odd, e |-> exp]

Num(i) == Fl(i, 1, 0)

\* x + y on finite floats
Plus(x, y) ==
    IF x = FZero THEN y
    ELSE IF y = FZero THEN x
    ELSE IF x.e - y.e > Precision THEN x
    ELSE IF y.e - x.e > Precision THEN y
    ELSE IF x.e >= y.e
         THEN Fl(x.n * Pow2(x.e - y.e) * y.d + y.n * x.d, x.d * y.d, y.e)
         ELSE Fl(x.n * y.d + y.n * Pow2(y.e - x.e) * x.d, x.d * y.d, x.e)

\* the binary order of magnitude of a finite float other than zero
RECURSIVE Log2(_)
Log2(i) == IF i <= 1 THEN 0 ELSE 1 + Log2(i \div 2)
Magnitude(x) == x.e + Log2(Abs(x.n)) - Log2(x.d)

\* x > y on finite floats that are not negative
Greater(x, y) ==
    IF x = FZero THEN FALSE
    ELSE IF y = FZero THEN TRUE
    ELSE IF Magnitude(x) - Magnitude(y) > 2 THEN TRUE
    ELSE IF Magnitude(y) - Magnitude(x) > 2 THEN FALSE
    ELSE Plus(x, [y EXCEPT !.n = -y.n]).n > 0

\* x / y, x - y and x * y on floats
TrueDiv(x, y) ==
    IF Raises(x) \/ Raises(y) \/ y = FZero THEN ZeroDivisionError
    ELSE IF y.n > 0 THEN Fl(x.n * y.d, x.d * y.n, x.e - y.e)
    ELSE Fl(-x.n * y.d, x.d * (-y.n), x.e - y.e)
Minus(x, y) ==
    IF Raises(x) \/ Raises(y) THEN ZeroDivisionError
    ELSE Plus(x, [y EXCEPT !.n = -y.n])
Times(x, y) ==
    IF Raises(x) \/ Raises(y) THEN ZeroDivisionError
    ELSE Fl(x.n * y.n, x.d * y.d, x.e + y.e)

BinaryGroup(outliers, inliers) == [outliers |-> outliers, inliers |-> inliers]

\* BinaryGroup.total
GroupTotal(group) == Plus(group.outliers, group.inliers)

\* the tolerance 1e-12 = 2^-12 / 5^12 of ContingencyTable.__post_init__
Tolerance == Fl(1, 244140625, -12)

\* sum > bound + 1e-12, taken as sum - bound > 1e-12
ExceedsTolerance(sum, bound) ==
    /\ Greater(sum, bound)
    /\ Greater(Plus(sum, [bound EXCEPT !.n = -bound.n]), Tolerance)

\* ContingencyTable.__post_init__ returns without raising ValueError
Constructible(exposed, unexposed, total) ==
    IF IsNone(total) THEN TRUE
    ELSE IF Plus(Val(total).outliers, Val(total).inliers) = FZero THEN TRUE
    ELSE /\ ~Greater(exposed.outliers, Val(total).outliers)
         /\ ~Greater(exposed.inliers, Val(total).inliers)
         /\ ~Greater(unexposed.outliers, Val(total).outliers)
         /\ ~Greater(unexposed.inliers, Val(total).inliers)
         /\ ~ExceedsTolerance(Plus(exposed.outliers, unexposed.outliers),
                              Val(total).outliers)
         /\ ~ExceedsTolerance(Plus(exposed.inliers, unexposed.inliers),
                              Val(total).inliers)

total_outliers(table) ==
    IF ~IsNone(table.total) THEN Val(table.total).outliers
    ELSE Plus(table.exposed.outliers, table.unexposed.outliers)

total_inliers(table) ==
    IF ~IsNone(table.total) THEN Val(table.total).inliers
    ELSE Plus(table.exposed.inliers, table.unexposed.inliers)

population(table) == Plus(total_outliers(table), total_inliers(table))
total_exposed(table) == GroupTotal(table.exposed)
total_unexposed(table) == GroupTotal(table.unexposed)

_safe_ratio(numerator, denominator) ==
    IF denominator = FZero THEN FZero ELSE TrueDiv(numerator, denominator)

support(table) == _safe_ratio(total_exposed(table), population(table))
outlier_support(table) == _safe_ratio(table.exposed.outliers, total_outliers(table))
inlier_support(table) == _safe_ratio(table.exposed.inliers, total_inliers(table))
risk(table) == _safe_ratio(table.exposed.outliers, total_exposed(table))
baseline_risk(table) == _safe_ratio(table.unexposed.outliers, total_unexposed(table))

risk_ratio(table) ==
    IF total_exposed(table) = FZero \/ total_unexposed(table) = FZero THEN FZero
    ELSE IF table.unexposed.outliers = FZero THEN FInf
    ELSE TrueDiv(TrueDiv(table.exposed.outliers, total_exposed(table)),
                 TrueDiv(table.unexposed.outliers, total_unexposed(table)))

risk_difference(table) ==
    IF total_exposed(table) = FZero \/ total_unexposed(table) = FZero THEN FZero
    ELSE Minus(TrueDiv(table.exposed.outliers, total_exposed(table)),
               TrueDiv(table.unexposed.outliers, total_unexposed(table)))

lift(table) ==
    IF \/ population(table) = FZero
       \/ total_exposed(table) = FZero
       \/ total_outliers(table) = FZero
    THEN FZero
    ELSE TrueDiv(TrueDiv(table.exposed.outliers, total_exposed(table)),
                 TrueDiv(total_outliers(table), population(table)))

leverage(table) ==
    IF population(table) = FZero THEN FZero
    ELSE Minus(TrueDiv(table.exposed.outliers, population(table)),
               Times(TrueDiv(total_exposed(table), population(table)),
                     TrueDiv(total_outliers(table), population(table))))

\* the dictionary literal of compute_metrics, one function call per key
MetricCalls(table) ==
    [support |-> support(table),
     outlier_support |-> outlier_support(table),
     inlier_support |-> inlier_support(table),
     risk |-> risk(table),
     baseline_risk |-> baseline_risk(table),
     risk_ratio |-> risk_ratio(table),
     risk_difference |-> risk_difference(table),
     lift |-> lift(table),
     leverage |-> leverage(table)]

MetricNames == {"support", "outlier_support", "inlier_support", "risk", "baseline_risk",
                "risk_ratio", "risk_difference", "lift", "leverage"}

\* what a caller gets from evaluating the metrics named: their values, or the
\* exception that the first failing one raises
Outcome(call, values) ==
    IF \E key \in DOMAIN values : Raises(values[key])
    THEN [call |-> call, raised |-> "ZeroDivisionError", metrics |-> <<>>]
    ELSE [call |-> call, raised |-> "", metrics |-> values]

compute_metrics(table) == Outcome("compute_metrics", MetricCalls(table))

\* the weights a group is built from: whole counts, and one aggregate weight
\* far below and one far above them
Tiny == Fl(1, 1, -600)
Huge == Fl(1, 1, 600)
Weights == {Num(i) : i \in 0..MaxCount} \cup {Tiny, Huge}
Groups == {BinaryGroup(o, i) : o \in Weights, i \in Weights}

\* what the metrics engine never touches
summarizerVars == <<kind, self, pc, df, explanations, level_itemsets, k, candidate_heap,
                    visited, current_depth, result, err, evaluated, ranked, last,
                    nSet, nCalls, configured, other>>

\* the summarizer plays no part in the slices of the other components
InitMetrics ==
    /\ InitSummarizer
    /\ kind = "apriori"
    /\ InitComponents

\* ContingencyTable(exposed, unexposed, total); when __post_init__ raises
\* ValueError no table exists
ContingencyTable ==
    /\ IsNone(ct)
    /\ \E exposed \in Groups, unexposed \in Groups,
          total \in {None} \cup {Some(g) : g \in Groups} :
          /\ Constructible(exposed, unexposed, total)
          /\ ct' = Some([exposed |-> exposed, unexposed |-> unexposed, total |-> total])
    /\ UNCHANGED <<summarizerVars, bundle, utilVars>>

\* compute_metrics(table) on the table constructed
compute_metrics_call ==
    /\ ~IsNone(ct) /\ IsNone(bundle)
    /\ bundle' = Some(compute_metrics(Val(ct)))
    /\ UNCHANGED <<summarizerVars, ct, utilVars>>

\* one metric function called on the table constructed
metric_call ==
    /\ ~IsNone(ct) /\ IsNone(bundle)
    /\ \E name \in MetricNames :
          bundle' = Some(Outcome(name, [key \in {name} |-> MetricCalls(Val(ct))[key]]))
    /\ UNCHANGED <<summarizerVars, ct, utilVars>>

NextMetrics ==
    \/ ContingencyTable
    \/ compute_metrics_call
    \/ metric_call

SpecMetrics == InitMetrics /\ [][NextMetrics]_vars

-----------------------------------------------------------------------------
(* Combination model: BatchSummarizer._normalize_combination on its own *)

MaxPairs == 3

\* the (attribute, value) pairs handed to _normalize_combination
PairChoices == {<<attribute, value>> : attribute \in {"a", "b", "c"}, value \in {1, 2}}
PairSequences == UNION {[1..n -> PairChoices] : n \in 0..MaxPairs}

\* _normalize_combination(pairs)
normalize_call ==
    /\ IsNone(norm)
    /\ \E pairs \in PairSequences :
          norm' = Some([pairs |-> pairs,
                        normalized |-> _normalize_combination(pairs),
                        again |-> None])
    /\ UNCHANGED <<summarizerVars, metricsVars, filt, fdep, clf>>

\* _normalize_combination on the combination that the first call returned
normalize_again ==
    /\ ~IsNone(norm)
    /\ ~IsNone(Val(norm).normalized) /\ IsNone(Val(norm).again)
    /\ norm' = Some([Val(norm) EXCEPT
                        !.again = Some(_normalize_combination(Val(Val(norm).normalized)))])
    /\ UNCHANGED <<summarizerVars, metricsVars, filt, fdep, clf>>

NextNormalize ==
    \/ normalize_call
    \/ normalize_again

SpecNormalize == InitMetrics /\ [][NextNormalize]_vars

-----------------------------------------------------------------------------
(* Thresholds: macrobase_py/summarizers/thresholds.py *)

MaxCandidates == 2

\* x < y on floats, +inf included
Less(x, y) ==
    IF x = FInf THEN FALSE
    ELSE IF y = FInf THEN TRUE
    ELSE IF x.n < 0 /\ y.n >= 0 THEN TRUE
    ELSE IF x.n >= 0 /\ y.n < 0 THEN FALSE
    ELSE IF x.n >= 0 THEN Greater(y, x)
    ELSE Greater([x EXCEPT !.n = -x.n], [y EXCEPT !.n = -y.n])

\* MetricThresholds(...): every field None or empty unless given
MetricThresholds(given) ==
    given @@ [min_support |-> None, min_outlier_support |-> None,
              min_inlier_support |-> None, min_risk_ratio |-> None,
              min_risk_difference |-> None, min_lift |-> None,
              min_leverage |-> None, maximums |-> {}, minimums |-> {}]

\* the (metric, threshold) pairs that _iter_minimums yields
_iter_minimums(thresholds) ==
    {<<metric, Val(thresholds["min_" \o metric])>> :
        metric \in {name \in {"support", "outlier_support", "inlier_support", "risk_ratio",
                              "risk_difference", "lift", "leverage"} :
                       ~IsNone(thresholds["min_" \o name])}}
    \cup thresholds.minimums

_iter_maximums(thresholds) == thresholds.maximums

\* MetricThresholds.passes(table, metrics)
passes(thresholds, table, metrics) ==
    LET dict == IF metrics = <<>> THEN compute_metrics(table).metrics ELSE metrics
    IN /\ \A pair \in _iter_minimums(thresholds) :
            pair[1] \in DOMAIN dict /\ ~Less(dict[pair[1]], pair[2])
       /\ \A pair \in _iter_maximums(thresholds) :
            pair[1] \in DOMAIN dict /\ ~Less(pair[2], dict[pair[1]])

\* list(filter_candidates(candidates, thresholds, metrics_cache=cache)): the
\* loop, with acc the pairs yielded, the cache, and the exception raised
RECURSIVE FilterLoop(_, _, _)
FilterLoop(candidates, thresholds, acc) ==
    IF candidates = <<>> \/ acc.raised # "" THEN acc
    ELSE LET candidate == Head(candidates)[1]
             table == Head(candidates)[2]
             cached == candidate \in DOMAIN acc.cache
             computed == compute_metrics(table)
         IN IF ~cached /\ computed.raised # ""
            THEN [acc EXCEPT !.raised = computed.raised]
            ELSE LET metrics == IF cached THEN acc.cache[candidate] ELSE computed.metrics
                     cache == IF cached THEN acc.cache
                              ELSE (candidate :> metrics) @@ acc.cache
                 IN FilterLoop(Tail(candidates), thresholds,
                        [acc EXCEPT
                            !.cache = cache,
                            !.kept = IF passes(thresholds, table, metrics)
                                     THEN Append(@, <<candidate, table, metrics>>)
                                     ELSE @])

filter_candidates(candidates, thresholds, metrics_cache) ==
    FilterLoop(candidates, thresholds, [kept |-> <<>>, cache |-> metrics_cache, raised |-> ""])

\* the tables of the candidates: whole counts, and one table of weights
Table(eo, ei, uo, ui) ==
    [exposed |-> BinaryGroup(eo, ei), unexposed |-> BinaryGroup(uo, ui), total |-> None]
TableChoices ==
    {Table(Num(1), Num(0), Num(0), Num(1)),
     Table(Num(0), Num(1), Num(1), Num(0)),
     Table(Num(1), Num(1), Num(1), Num(1)),
     Table(Num(0), Num(0), Num(1), Num(1)),
     Table(Num(1), Num(1), Tiny, Huge)}
CandidateLists ==
    UNION {[1..n -> {"x", "y"} \X TableChoices] : n \in 0..MaxCandidates}

ThresholdChoices ==
    {MetricThresholds([min_support |-> Some(Fl(1, 2, 0))]),
     MetricThresholds([min_risk_ratio |-> Some(Num(1))]),
     MetricThresholds([min_risk_difference |-> Some(Num(0))]),
     MetricThresholds([maximums |-> {<<"risk", Fl(1, 2, 0)>>}]),
     MetricThresholds([minimums |-> {<<"odds", Num(0)>>}]),
     MetricThresholds(<<>>)}

\* the empty dict
EmptyCache == <<>>

\* kept = list(filter_candidates(candidates, thresholds, metrics_cache=cache))
filter_call ==
    /\ IsNone(filt)
    /\ \E candidates \in CandidateLists, thresholds \in ThresholdChoices :
          filt' = Some([candidates |-> candidates,
                        thresholds |-> thresholds,
                        first |-> filter_candidates(candidates, thresholds, EmptyCache),
                        again |-> None])
    /\ UNCHANGED <<summarizerVars, metricsVars, norm, fdep, clf>>

\* the kept candidates, with their tables, filtered again: with the cache of
\* the first pass or with none
filter_again ==
    /\ ~IsNone(filt)
    /\ Val(filt).first.raised = "" /\ IsNone(Val(filt).again)
    /\ \E reuse \in BOOLEAN :
          LET kept == Val(filt).first.kept
              pairs == [i \in DOMAIN kept |-> <<kept[i][1], kept[i][2]>>]
          IN filt' = Some([Val(filt) EXCEPT
                 !.again = Some(filter_candidates(pairs, Val(filt).thresholds,
                                    IF reuse THEN Val(filt).first.cache ELSE EmptyCache))])
    /\ UNCHANGED <<summarizerVars, metricsVars, norm, fdep, clf>>

NextFilter ==
    \/ filter_call
    \/ filter_again

SpecFilter == InitMetrics /\ [][NextFilter]_vars

-----------------------------------------------------------------------------
(* Functional dependencies: macrobase_py/utils/functional_dependency.py *)

MaxRecords == 3

\* the loop of check_functional_dependency over the records, determinants
\* ("det",) and dependents ("dep",); idx counts from 0
RECURSIVE CheckLoop(_, _, _, _)
CheckLoop(records, idx, ignore_nulls, acc) ==
    IF idx > Len(records) - 1 THEN acc
    ELSE LET record == records[idx + 1]
             key == <<record.det>>
             value == <<record.dep>>
         IN IF ignore_nulls /\ (record.det = Null \/ record.dep = Null)
            THEN CheckLoop(records, idx + 1, ignore_nulls, acc)
            ELSE LET counted == [acc EXCEPT !.total_rows = @ + 1]
                 IN IF key \notin DOMAIN acc.key_to_value
                    THEN CheckLoop(records, idx + 1, ignore_nulls,
                            [counted EXCEPT
                                !.key_to_value = (key :> value) @@ @,
                                !.key_to_rows = (key :> {idx}) @@ @])
                    ELSE IF acc.key_to_value[key] = value
                    THEN CheckLoop(records, idx + 1, ignore_nulls,
                            [counted EXCEPT !.key_to_rows[key] = @ \cup {idx}])
                    ELSE CheckLoop(records, idx + 1, ignore_nulls,
                            [counted EXCEPT
                                !.conflicts =
                                    (key :> ((IF key \in DOMAIN acc.conflicts
                                              THEN acc.conflicts[key] ELSE {})
                                             \cup {acc.key_to_value[key], value})) @@ @,
                                !.key_to_rows[key] = @ \cup {idx},
                                !.violating_rows =
                                    @ \cup acc.key_to_rows[key] \cup {idx},
                                !.key_to_value[key] = value])

\* sorted(values) for a set of 1-tuples; None cannot be ordered against a number
SortedValues(values) ==
    LET ints == SortedInts({v[1] : v \in values})
    IN [i \in DOMAIN ints |-> <<ints[i]>>]

\* check_functional_dependency(records, ["det"], ["dep"], ignore_nulls=...)
check_functional_dependency(records, ignore_nulls) ==
    LET acc == CheckLoop(records, 0, ignore_nulls,
                   [key_to_value |-> <<>>, key_to_rows |-> <<>>, conflicts |-> <<>>,
                    violating_rows |-> {}, total_rows |-> 0])
    IN IF \E key \in DOMAIN acc.conflicts : <<Null>> \in acc.conflicts[key]
       THEN [raised |-> "TypeError", total_rows |-> 0, violating_rows |-> 0,
             conflicts |-> <<>>]
       ELSE [raised |-> "", total_rows |-> acc.total_rows,
             violating_rows |-> Cardinality(acc.violating_rows),
             conflicts |-> [key \in DOMAIN acc.conflicts |->
                               SortedValues(acc.conflicts[key])]]

\* FunctionalDependencyResult.holds
holds(fd_result) == fd_result.violating_rows = 0

\* the records handed in
RecordChoices == [det : {1, 2}, dep : {1, 2, Null}]
RecordLists == UNION {[1..n -> RecordChoices] : n \in 0..MaxRecords}

check_call ==
    /\ IsNone(fdep)
    /\ \E records \in RecordLists, ignore_nulls \in BOOLEAN :
          fdep' = Some([records |-> records,
                        ignore_nulls |-> ignore_nulls,
                        result |-> check_functional_dependency(records, ignore_nulls),
                        summary |-> None])
    /\ UNCHANGED <<summarizerVars, metricsVars, norm, filt, clf>>

\* FunctionalDependencyResult.violation_ratio
violation_ratio(fd_result) ==
    IF fd_result.total_rows = 0 THEN Zero
    ELSE Frac(fd_result.violating_rows, fd_result.total_rows)

\* the key that dependency_summary builds for ("det",) and ("dep",)
SummaryKey == "det -> dep"

\* dependency_summary(results, max_ratio=..., max_violations=...): the loop
RECURSIVE SummaryLoop(_, _, _, _)
SummaryLoop(results, max_ratio, max_violations, summary) ==
    IF results = <<>> THEN summary
    ELSE LET fd_result == Head(results)
             satisfies ==
                 IF ~IsNone(max_violations) /\ fd_result.violating_rows > Val(max_violations)
                 THEN FALSE
                 ELSE IF ~IsNone(max_ratio) /\ Gt(violation_ratio(fd_result), Val(max_ratio))
                 THEN FALSE
                 ELSE holds(fd_result)
         IN SummaryLoop(Tail(results), max_ratio, max_violations,
                (SummaryKey :> satisfies) @@ summary)

dependency_summary(results, max_ratio, max_violations) ==
    SummaryLoop(results, max_ratio, max_violations, <<>>)

MaxRatioChoices == {None, Some(Zero), Some(Frac(1, 2)), Some(Frac(1, 1))}
MaxViolationsChoices == {None, Some(0), Some(2)}

\* dependency_summary([result], ...) on the result of the check
summary_call ==
    /\ ~IsNone(fdep)
    /\ Val(fdep).result.raised = "" /\ IsNone(Val(fdep).summary)
    /\ \E max_ratio \in MaxRatioChoices, max_violations \in MaxViolationsChoices :
          fdep' = Some([Val(fdep) EXCEPT
                    !.summary = Some([max_ratio |-> max_ratio,
                                      max_violations |-> max_violations,
                                      dict |-> dependency_summary(<<Val(fdep).result>>,
                                                  max_ratio, max_violations)])])
    /\ UNCHANGED <<summarizerVars, metricsVars, norm, filt, clf>>

NextDependency ==
    \/ check_call
    \/ summary_call

SpecDependency == InitMetrics /\ [][NextDependency]_vars

\* AprioriSummarizer(top_k=None) or HeuristicSummarizer(top_k=None): the
\* object just constructed returns its whole ranked list
Untruncated == [Constructed EXCEPT !.top_k = None]

InitUntruncated(cls) ==
    /\ kind \in cls
    /\ self = Untruncated
    /\ pc = "idle"
    /\ df = None
    /\ explanations = <<>>
    /\ level_itemsets = <<>>
    /\ k = 0
    /\ candidate_heap = <<>>
    /\ visited = {}
    /\ current_depth = 0
    /\ result = <<>>
    /\ err = ""
    /\ evaluated = <<>>
    /\ ranked = <<>>
    /\ last = None
    /\ nSet = 0
    /\ nCalls = 0
    /\ configured = Untruncated
    /\ other = [pc |-> "idle", df |-> None, result |-> <<>>, err |-> ""]
    /\ InitComponents

\* the exhaustive search without truncation, over three attributes
NextExhaustive ==
    \/ set_max_order
    \/ set_functional_dependencies
    \/ enable_fd_hints
    \/ set_min_support
    \/ explain_deep
    \/ apriori_singletons
    \/ apriori_level
    \/ apriori_return

SpecExhaustive == InitUntruncated({"apriori"}) /\ [][NextExhaustive]_vars

\* the beam search without truncation of the result, three levels deep
NextBeam ==
    \/ set_beam_width
    \/ set_max_order
    \/ explain_deep
    \/ heuristic_seed
    \/ heuristic_depth
    \/ heuristic_return

SpecBeam == InitUntruncated({"heuristic"}) /\ [][NextBeam]_vars

-----------------------------------------------------------------------------
(* Classifiers: macrobase_py/classifiers.  An object is the set of its     *)
(* instance attributes; `_fitted` is an Option, None while no statement    *)
(* has assigned the attribute.                                             *)

MaxClassifierCalls == 3

ClassifierClasses ==
    {"PredicateClassifier", "PercentileOutlierClassifier", "MeanShiftClassifier",
     "CountMeanShiftClassifier", "AggregatedQuantileClassifier",
     "AggregatedArithmeticClassifier"}

\* Classifier._ensure_fitted: the exception it raises ("" if none).  Reading
\* an attribute that was never assigned raises AttributeError.
_ensure_fitted(obj) ==
    IF IsNone(obj._fitted) THEN "AttributeError"
    ELSE IF ~Val(obj._fitted) THEN "RuntimeError"
    ELSE ""

\* the property Classifier.fitted: the value read, or the exception raised
fitted(obj) ==
    IF IsNone(obj._fitted) THEN [raised |-> "AttributeError", value |-> FALSE]
    ELSE [raised |-> "", value |-> Val(obj._fitted)]

\* Classifier._mark_fitted
_mark_fitted(obj) == [obj EXCEPT !._fitted = Some(TRUE)]

\* the frames handed to a classifier: one that has the columns and the rows
\* the classifier needs, one that lacks a column
DataChoices == {"usable", "lacks_column"}

\* the exception that the body of fit / score raises on the data ("" if none);
\* PredicateClassifier.fit does not look at its data
DataError(cls, op, data) ==
    IF data = "usable" THEN ""
    ELSE IF cls = "PredicateClassifier" THEN (IF op = "fit" THEN "" ELSE "UndefinedVariableError")
    ELSE "KeyError"

\* the constructors of the concrete classes: none of them calls
\* Classifier.__init__, which is where _fitted is set to False
construct_classifier ==
    /\ IsNone(clf)
    /\ \E cls \in ClassifierClasses :
          clf' = Some([cls |-> cls, _fitted |-> None, fit_done |-> FALSE, calls |-> 0,
                       last |-> [op |-> "__init__", raised |-> "", before |-> None]])
    /\ UNCHANGED <<summarizerVars, metricsVars, norm, filt, fdep>>

\* one more call on the classifier: the object after it and the record of the call
ClassifierCall(obj, op, raised) ==
    /\ ~IsNone(clf)
    /\ Val(clf).calls < MaxClassifierCalls
    /\ clf' = Some([obj EXCEPT !.calls = @ + 1,
                               !.last = [op |-> op, raised |-> raised,
                                         before |-> Val(clf)._fitted]])
    /\ UNCHANGED <<summarizerVars, metricsVars, norm, filt, fdep>>

\* fit(data): the body, then _mark_fitted
fit ==
    /\ ~IsNone(clf)
    /\ \E data \in DataChoices :
          LET obj == Val(clf)
              raised == DataError(obj.cls, "fit", data)
          IN IF raised # "" THEN ClassifierCall(obj, "fit", raised)
             ELSE ClassifierCall([_mark_fitted(obj) EXCEPT !.fit_done = TRUE], "fit", "")

\* score(data) and predict(data): _ensure_fitted, then the body
Use(op) ==
    /\ ~IsNone(clf)
    /\ \E data \in DataChoices :
          LET obj == Val(clf)
              unfit == _ensure_fitted(obj)
          IN ClassifierCall(obj, op,
                 IF unfit # "" THEN unfit ELSE DataError(obj.cls, op, data))

score == Use("score")
predict == Use("predict")

\* reading the property fitted
read_fitted ==
    /\ ~IsNone(clf)
    /\ ClassifierCall(Val(clf), "fitted", fitted(Val(clf)).raised)

NextClassifier ==
    \/ construct_classifier
    \/ fit
    \/ score
    \/ predict
    \/ read_fitted

SpecClassifier == InitMetrics /\ [][NextClassifier]_vars

-----------------------------------------------------------------------------
(* Properties *)

\* the frame of the current call
Frame == Val(df)

InCall == pc # "idle"
Returned == pc = "done"

\* the attribute-value mappings of a list of explanations
Mappings(exps) == [i \in DOMAIN exps |-> exps[i].attributes]

\* support_outliers of a combination in the prepared frame of the call
SupportOf(combination) == _compute_metrics(self, combination).support_outliers

\* C1. Support bound: under either strategy and every configuration, each
\* explanation in the list returned by explain has support_outliers >= min_support.
C1_SupportBound ==
    Returned =>
        \A i \in DOMAIN result : Geq(result[i].support_outliers, self.min_support)

\* a returned list, in a call that computed a combination below min_support
C1_Witness ==
    /\ Returned /\ result # <<>>
    /\ self.min_support = Frac(3, 4)
    /\ \E i \in DOMAIN evaluated :
          /\ Gt(SupportOf(evaluated[i]), Zero)
          /\ Lt(SupportOf(evaluated[i]), self.min_support)

\* C2. Ratio bound: each explanation returned has a value of the configured
\* ratio metric >= min_ratio_metric, and a combination with enough support that
\* fails the ratio test is still kept as a seed of the next level (Apriori: in
\* level_itemsets; heuristic: in the heap of the first depth).
C2_RatioBound ==
    /\ Returned =>
          \A i \in DOMAIN result :
              Geq(_metric_from_explanation(result[i], self.ratio_metric),
                  self.min_ratio_metric)
    /\ (kind = "apriori" /\ pc = "levels") =>
          \A i \in DOMAIN evaluated :
              (Len(evaluated[i]) = k - 1 /\ Geq(SupportOf(evaluated[i]), self.min_support))
                  => \E j \in DOMAIN level_itemsets :
                        level_itemsets[j].combination = evaluated[i]
    /\ (kind = "heuristic" /\ pc = "beam" /\ current_depth = 1) =>
          \A i \in DOMAIN evaluated :
              Geq(SupportOf(evaluated[i]), self.min_support)
                  => \E j \in DOMAIN candidate_heap :
                        candidate_heap[j].combination = evaluated[i]

\* Apriori after level 2: a pair was emitted although one of its singletons,
\* kept as a seed, failed the ratio test
C2_Witness ==
    /\ kind = "apriori" /\ pc = "levels" /\ k = 3
    /\ \E i \in DOMAIN explanations :
          /\ Len(explanations[i].attributes) = 2
          /\ \E j \in {1, 2} :
                /\ <<explanations[i].attributes[j]>> \notin Range(Mappings(explanations))
                /\ Lt(_metric_value(self, _compute_metrics(self, <<explanations[i].attributes[j]>>)),
                      self.min_ratio_metric)

\* C3. Order bound: every explanation returned has at most max_order
\* attribute-value pairs (max_order as configured; the number of declared
\* attributes, which _prepare stores in max_order, when it was left unset).
C3_OrderBound ==
    Returned =>
        \A i \in DOMAIN result : Len(result[i].attributes) <= Val(self.max_order)

\* the combinations over the columns of the frames, in canonical form
AllCombinations ==
    {<< <<"a", v>> >> : v \in AttrValues}
    \cup {<< <<"b", v>> >> : v \in AttrValues}
    \cup {<< <<"a", v>>, <<"b", w>> >> : v \in AttrValues, w \in AttrValues}

\* the combination holds a determinant of a declared hint and one of its dependents
PairsDeterminantWithDependent(s, combination) ==
    \E determinant \in DOMAIN s.functional_dependencies :
        /\ determinant \in CombAttrs(combination)
        /\ s.functional_dependencies[determinant] \cap CombAttrs(combination) # {}

\* C4. Functional-dependency pruning: with FD hints enabled no explanation
\* holds a determinant together with one of its declared dependents; with FD
\* hints disabled the declared hints reject no combination.
C4_FdPruning ==
    /\ self.use_fd_hints =>
          \A i \in DOMAIN explanations :
              ~PairsDeterminantWithDependent(self, explanations[i].attributes)
    /\ (Returned /\ self.use_fd_hints) =>
          \A i \in DOMAIN result :
              ~PairsDeterminantWithDependent(self, result[i].attributes)
    /\ ~self.use_fd_hints =>
          \A c \in AllCombinations :
              _is_valid_combination(self, c) <=> Len(c) <= OrderLimit(self)

\* hints enabled, and a pair that meets both thresholds is missing from the
\* returned list because it joins the determinant with its dependent
C4_Witness ==
    /\ Returned /\ result # <<>>
    /\ self.use_fd_hints
    /\ \E c \in AllCombinations :
          /\ Len(c) = 2
          /\ PairsDeterminantWithDependent(self, c)
          /\ _has_min_support(self, _compute_metrics(self, c))
          /\ _satisfies_ratio(self, _compute_metrics(self, c))
          /\ c \notin Range(Mappings(result))

\* the ranking key of the specification: (metric value, support_outliers,
\* risk_difference), compared as numbers, +inf above every finite value
RankKey(exp, metric_name) ==
    <<_metric_from_explanation(exp, metric_name), exp.support_outliers, exp.risk_difference>>

\* C5. Ranking order: the list returned by explain is sorted descending by
\* (configured ratio-metric value, support_outliers, risk_difference).
C5_RankingOrder ==
    Returned =>
        \A i, j \in DOMAIN result :
            i < j => ~KeyLt(RankKey(result[i], self.ratio_metric),
                            RankKey(result[j], self.ratio_metric))

Min(a, b) == IF a < b THEN a ELSE b

\* C6. Truncation: with top_k = None explain returns the full ranked list;
\* with top_k = n it returns the first min(n, length) elements of that list,
\* in the same order, so never more than top_k explanations.
C6_Truncation ==
    Returned =>
        IF IsNone(self.top_k) THEN result = ranked
        ELSE /\ result = SubSeq(ranked, 1, Min(Val(self.top_k), Len(ranked)))
             /\ Len(result) <= Val(self.top_k)

\* a ranked list longer than top_k was cut
C6_Witness ==
    /\ Returned
    /\ ~IsNone(self.top_k)
    /\ Val(self.top_k) = 2
    /\ Len(ranked) > 2
    /\ Len(result) = 2

C8_Determinism ==
    (pc \in {"done", "raised"} /\ ~IsNone(last)) =>
        /\ pc = Val(last).outcome
        /\ result = Val(last).result
        /\ err = Val(last).err

\* a second call returned a list in which two explanations have equal ranking keys
C8_Witness ==
    /\ Returned /\ ~IsNone(last)
    /\ \E i, j \in DOMAIN result :
          /\ i < j
          /\ RankKey(result[i], self.ratio_metric) = RankKey(result[j], self.ratio_metric)

\* every row of the frame is an outlier, or every row is an inlier
OneGroupOnly(frame) ==
    \/ \A i \in DOMAIN frame.rows : frame.rows[i]["is_outlier"] # 0
    \/ \A i \in DOMAIN frame.rows : frame.rows[i]["is_outlier"] = 0

OutlierColumnMissing == ~Contains(Frame.columns, self.outlier_column)

RequestedAttributeMissing ==
    /\ ~IsNone(self.attributes)
    /\ \E i \in DOMAIN Val(self.attributes) :
          ~Contains(Frame.columns, Val(self.attributes)[i])

DeclaredAttributeHasNull ==
    /\ ~IsNone(self.attributes)
    /\ \E i \in DOMAIN Val(self.attributes) :
          /\ Contains(Frame.columns, Val(self.attributes)[i])
          /\ Null \in Range(Column(Frame, Val(self.attributes)[i]))

\* C9. A frame whose rows are all outliers, or all inliers, makes explain
\* raise: the call never reaches the search and never returns a list.  The
\* error is the data validity error (ValueError) unless a column the
\* configuration names is missing, which is reported first (KeyError).
C9_OneGroupRaises ==
    (InCall /\ OneGroupOnly(Frame)) =>
        /\ pc = "raised"
        /\ result = <<>>
        /\ err = IF OutlierColumnMissing \/ RequestedAttributeMissing
                 THEN "KeyError" ELSE "ValueError"

\* an all-outlier frame of three rows without missing cells was refused
C9_Witness ==
    /\ pc = "raised" /\ err = "ValueError"
    /\ Len(Frame.rows) = 3
    /\ \A i \in DOMAIN Frame.rows : Frame.rows[i]["is_outlier"] # 0
    /\ ~DeclaredAttributeHasNull

\* C10. Input rejection: explain raises and returns nothing when the outlier
\* column is missing from the frame, a requested attribute is not a column of
\* the frame, or a declared attribute column holds a null.
C10_InputRejection ==
    (InCall /\ (OutlierColumnMissing \/ RequestedAttributeMissing \/ DeclaredAttributeHasNull)) =>
        /\ pc = "raised"
        /\ result = <<>>
        /\ err = IF OutlierColumnMissing \/ RequestedAttributeMissing
                 THEN "KeyError" ELSE "ValueError"

\* a frame with outliers and inliers was refused for a null in a declared column
C10_Witness ==
    /\ pc = "raised" /\ err = "ValueError"
    /\ DeclaredAttributeHasNull
    /\ ~OneGroupOnly(Frame)

\* C11. An unsupported ratio_metric name is a caller error: explain never
\* returns a list, whatever the frame and the thresholds, when ratio_metric is
\* outside the four supported names.
C11_UnsupportedMetricRaises ==
    Returned => self.ratio_metric \in SupportedMetrics

\* C12. A non-positive max_order (either strategy) or a non-positive
\* beam_width (heuristic strategy) is a configuration error: explain never
\* returns a list under such a configuration.
C12_NonPositiveLimitRaises ==
    Returned =>
        /\ Val(self.max_order) > 0
        /\ kind = "heuristic" => self.beam_width > 0

\* C13. Ordering of failure and search: when explain raises, it raises during
\* dataset preparation, before the metrics of any combination are computed;
\* once the search has started the call never raises.
C13_FailBeforeSearch ==
    pc = "raised" => evaluated = <<>>

\* C14. Statelessness across calls: a call of explain on an object that has
\* answered an earlier call ends as the same call on a fresh object with the
\* same configuration would: the same list, or the same error.
C14_Statelessness ==
    (pc \in {"done", "raised"} /\ ~IsNone(last)) =>
        LET fresh == ExplainOutcome(kind, configured, Frame)
        IN /\ pc = fresh.outcome
           /\ result = fresh.result
           /\ err = fresh.err

\* C15. Ownership under interleaving: when two explain invocations on
\* different frames interleave on one object, each computes its metrics from
\* its own prepared frame, and each ends as it ends when it runs alone.
C15_Ownership ==
    /\ (pc \in {"run", "levels", "beam"}) => self.df_ = df
    /\ (pc \in {"done", "raised"} /\ IsNone(last)) =>
          LET alone == ExplainOutcome(kind, configured, Frame)
          IN /\ pc = alone.outcome
             /\ result = alone.result
             /\ err = alone.err
    /\ (other.pc \in {"done", "raised"}) =>
          LET alone == ExplainOutcome(kind, configured, Val(other.df))
          IN /\ other.pc = alone.outcome
             /\ other.result = alone.result
             /\ other.err = alone.err

\* the combination was evaluated in this call and reached min_support
Frequent(combination) ==
    /\ Contains(evaluated, combination)
    /\ Geq(SupportOf(combination), self.min_support)

\* C16. Anti-monotonicity of the exhaustive search: every combination of
\* k >= 2 pairs that is evaluated as a candidate has each of its sub-combinations
\* of k - 1 pairs in the frequent set of the level below.
C16_AntiMonotone ==
    (kind = "apriori" /\ pc \in {"levels", "done"}) =>
        \A i \in DOMAIN evaluated :
            Len(evaluated[i]) >= 2 =>
                \A j \in DOMAIN evaluated[i] : Frequent(DropAt(evaluated[i], j))

\* level 3 was searched: one triple was evaluated, and another one was not
\* although the two pairs that join into it were frequent
C16_Witness ==
    /\ kind = "apriori" /\ pc = "done"
    /\ \E i \in DOMAIN evaluated : Len(evaluated[i]) = 3
    /\ \E v \in AttrValues, w \in AttrValues, x \in AttrValues :
          LET triple == << <<"a", v>>, <<"b", w>> , <<"c", x>> >>
          IN /\ ~Contains(evaluated, triple)
             /\ Frequent(DropAt(triple, 3))
             /\ Frequent(DropAt(triple, 2))
             /\ ~Frequent(DropAt(triple, 1))

\* the configuration of the scenarios: min_support 0.2, min_ratio_metric 2.0,
\* max_order 3, ratio metric risk_ratio, and a top_k that keeps the first element
ScenarioConfigured ==
    /\ configured.min_support = Frac(1, 5)
    /\ configured.min_ratio_metric = Frac(2, 1)
    /\ configured.max_order = Some(3)
    /\ configured.ratio_metric = "risk_ratio"
    /\ configured.top_k # Some(0)

\* {browser: Chrome, region: US, segment: A}
ChromeUsA ==
    << <<"browser", Browser.Chrome>>, <<"region", Region.US>>, <<"segment", Segment.A>> >>

\* C17. Exhaustive scenario: on the sample frame the exhaustive strategy with
\* min_support 0.2, min_ratio_metric 2.0, max_order 3 and risk_ratio returns
\* {browser: Chrome, region: US, segment: A} first, with support_outliers 1/2,
\* support_inliers 1/10, risk_ratio 5 and risk_difference 2/5: the counts of
\* matching outlier and inlier rows (2 of 4, 1 of 10), their quotient and difference.
C17_ExhaustiveScenario ==
    (kind = "apriori" /\ pc \in {"done", "raised"} /\ Frame = build_sample_frame
        /\ ScenarioConfigured) =>
        /\ Returned /\ result # <<>>
        /\ result[1].attributes = ChromeUsA
        /\ result[1].support_outliers = Frac(2, 4)
        /\ result[1].support_inliers = Frac(1, 10)
        /\ result[1].risk_ratio = Frac(5, 1)
        /\ result[1].risk_difference = Frac(2, 5)

\* the exhaustive search of the scenario returned, with a second explanation
\* of the same ranking key behind the first one
C17_Witness ==
    /\ kind = "apriori" /\ Returned /\ Frame = build_sample_frame
    /\ ScenarioConfigured
    /\ Len(result) >= 2
    /\ RankKey(result[2], "risk_ratio") = RankKey(result[1], "risk_ratio")

\* C18. Strategy agreement: on the sample frame, with the thresholds of the
\* scenario and beam_width 5, the heuristic strategy returns the same first
\* explanation, with the same score, as the exhaustive strategy.
C18_StrategyAgreement ==
    (kind = "heuristic" /\ pc \in {"done", "raised"} /\ Frame = build_sample_frame
        /\ ScenarioConfigured /\ configured.beam_width = 5) =>
        LET exhaustive == ExplainOutcome("apriori", configured, build_sample_frame)
        IN /\ Returned /\ result # <<>>
           /\ exhaustive.outcome = "done" /\ exhaustive.result # <<>>
           /\ result[1].attributes = exhaustive.result[1].attributes
           /\ result[1].risk_ratio = exhaustive.result[1].risk_ratio
           /\ result[1] = exhaustive.result[1]

\* the heuristic search of the scenario returned the triple first, with more
\* frequent singletons than the beam holds
C18_Witness ==
    /\ kind = "heuristic" /\ Returned /\ Frame = build_sample_frame
    /\ ScenarioConfigured /\ configured.beam_width = 5
    /\ result # <<>> /\ result[1].attributes = ChromeUsA
    /\ Cardinality({i \in DOMAIN evaluated :
            Len(evaluated[i]) = 1 /\ Frequent(evaluated[i])}) > configured.beam_width

\* C19. risk_ratio: for every contingency table of non-negative counts the
\* call returns exactly 0 when total_exposed = 0 or total_unexposed = 0,
\* otherwise exactly +infinity when unexposed.outliers = 0, otherwise
\* (exposed.outliers / total_exposed) / (unexposed.outliers / total_unexposed).
C19_RiskRatioCases ==
    (~IsNone(bundle) /\ Val(bundle).call = "risk_ratio") =>
        LET t == Val(ct) IN
        /\ Val(bundle).raised = ""
        /\ Val(bundle).metrics.risk_ratio =
              IF total_exposed(t) = FZero \/ total_unexposed(t) = FZero THEN FZero
              ELSE IF t.unexposed.outliers = FZero THEN FInf
              ELSE TrueDiv(TrueDiv(t.exposed.outliers, total_exposed(t)),
                           TrueDiv(t.unexposed.outliers, total_unexposed(t)))

\* the zero denominators that section 4.1 names for each metric
ZeroDenominator(t) ==
    [support |-> population(t) = FZero,
     outlier_support |-> total_outliers(t) = FZero,
     inlier_support |-> total_inliers(t) = FZero,
     risk |-> total_exposed(t) = FZero,
     baseline_risk |-> total_unexposed(t) = FZero,
     risk_difference |-> total_exposed(t) = FZero \/ total_unexposed(t) = FZero,
     lift |-> \/ population(t) = FZero
              \/ total_exposed(t) = FZero
              \/ total_outliers(t) = FZero,
     leverage |-> population(t) = FZero]

\* C20. Degenerate tables never raise: on every constructible table each of
\* support, outlier_support, inlier_support, risk, baseline_risk,
\* risk_difference, lift and leverage returns, and returns 0 when its
\* denominator is 0; compute_metrics returns a bundle with all nine metrics
\* and raises no exception.
C20_DegenerateNeverRaise ==
    (~IsNone(bundle) /\ Val(bundle).call # "risk_ratio") =>
        /\ Val(bundle).raised = ""
        /\ Val(bundle).call = "compute_metrics" =>
              DOMAIN Val(bundle).metrics = MetricNames
        /\ \A key \in DOMAIN Val(bundle).metrics \cap DOMAIN ZeroDenominator(Val(ct)) :
              ZeroDenominator(Val(ct))[key] => Val(bundle).metrics[key] = FZero

\* C21. Combination normalization: _normalize_combination returns None exactly
\* when some attribute occurs with two different values; otherwise it returns
\* the same set of pairs, one pair per attribute, in the order of the attribute
\* names; every other ordering or repetition of the same pairs gives the same
\* value, and normalizing the result again gives the result.
C21_Normalization ==
    ~IsNone(norm) =>
        LET pairs == Val(norm).pairs
            normalized == Val(norm).normalized
            conflict == \E i, j \in DOMAIN pairs :
                           pairs[i][1] = pairs[j][1] /\ pairs[i][2] # pairs[j][2]
        IN /\ IsNone(normalized) <=> conflict
           /\ ~IsNone(normalized) =>
                 LET comb == Val(normalized)
                 IN /\ {comb[i] : i \in DOMAIN comb} = {pairs[i] : i \in DOMAIN pairs}
                    /\ \A i, j \in DOMAIN comb :
                          i < j => PairLt(comb[i], comb[j]) /\ comb[i][1] # comb[j][1]
                    /\ \A q \in PairSequences :
                          {q[i] : i \in DOMAIN q} = {pairs[i] : i \in DOMAIN pairs}
                              => _normalize_combination(q) = normalized
                    /\ ~IsNone(Val(norm).again) => Val(Val(norm).again) = normalized

\* a repeated pair, handed in against the order of the names, normalized twice
C21_Witness ==
    /\ ~IsNone(norm)
    /\ Val(norm).pairs = << <<"b", 1>>, <<"a", 2>>, <<"b", 1>> >>
    /\ Val(norm).normalized = Some(<< <<"a", 2>>, <<"b", 1>> >>)
    /\ ~IsNone(Val(norm).again)

\* a table passes the thresholds: its metrics can be computed and satisfy them
TablePasses(thresholds, table) ==
    /\ compute_metrics(table).raised = ""
    /\ passes(thresholds, table, compute_metrics(table).metrics)

\* the candidates of a list of pairs or of yielded triples, in order
CandidatesOf(list) == [i \in DOMAIN list |-> <<list[i][1], list[i][2]>>]

\* C22. Threshold filtering is idempotent: filter_candidates keeps exactly the
\* candidates whose table passes the thresholds, and filtering the kept
\* candidates again with the same thresholds, with or without the cache of the
\* first pass, keeps all of them in the same order.
C22_FilterIdempotent ==
    ~IsNone(filt) =>
        LET f == Val(filt)
        IN /\ f.first.raised = ""
           /\ CandidatesOf(f.first.kept) =
                 SelectSeq(f.candidates, LAMBDA pair : TablePasses(f.thresholds, pair[2]))
           /\ ~IsNone(f.again) =>
                 /\ Val(f.again).raised = ""
                 /\ CandidatesOf(Val(f.again).kept) = CandidatesOf(f.first.kept)

\* the records that check_functional_dependency does not skip
Counted(records, ignore_nulls) ==
    {i \in DOMAIN records :
        ~(ignore_nulls /\ (records[i].det = Null \/ records[i].dep = Null))}

\* the counted records whose determinant occurs with two dependent values
Violating(records, ignore_nulls) ==
    {i \in Counted(records, ignore_nulls) :
        \E j \in Counted(records, ignore_nulls) :
            records[j].det = records[i].det /\ records[j].dep # records[i].dep}

\* the orders in which the same records can be handed in
Orders(records) ==
    {[i \in DOMAIN records |-> records[p[i]]] :
        p \in {q \in [DOMAIN records -> DOMAIN records] :
                  \A i, j \in DOMAIN records : q[i] = q[j] => i = j}}

\* C23. check_functional_dependency reports as violating_rows the number of
\* counted rows whose determinant key occurs with more than one dependent
\* value; holds is true exactly when there is no such row; the count is the
\* same for every order of the rows.
C23_ViolatingRows ==
    ~IsNone(fdep) =>
        LET records == Val(fdep).records
            ignore_nulls == Val(fdep).ignore_nulls
            fd_result == Val(fdep).result
        IN /\ fd_result.raised = ""
           /\ fd_result.violating_rows = Cardinality(Violating(records, ignore_nulls))
           /\ holds(fd_result) <=> Violating(records, ignore_nulls) = {}
           /\ \A reordered \in Orders(records) :
                 check_functional_dependency(reordered, ignore_nulls).violating_rows
                     = fd_result.violating_rows

\* C24. dependency_summary marks a dependency True exactly when its
\* violation_ratio <= max_ratio and its violating_rows <= max_violations, for
\* the thresholds that are given, and exactly when it holds if none is given.
C24_SummaryThresholds ==
    (~IsNone(fdep) /\ ~IsNone(Val(fdep).summary)) =>
        LET fd_result == Val(fdep).result
            max_ratio == Val(Val(fdep).summary).max_ratio
            max_violations == Val(Val(fdep).summary).max_violations
            dict == Val(Val(fdep).summary).dict
        IN /\ DOMAIN dict = {SummaryKey}
           /\ dict[SummaryKey] <=>
                 IF IsNone(max_ratio) /\ IsNone(max_violations) THEN holds(fd_result)
                 ELSE /\ ~IsNone(max_ratio) =>
                            ~Gt(violation_ratio(fd_result), Val(max_ratio))
                      /\ ~IsNone(max_violations) =>
                            fd_result.violating_rows <= Val(max_violations)

\* every canonical combination over the declared attributes and the values
\* observed for them: one value for each attribute of a non-empty subset
CanonicalCombinations(s) ==
    LET attrs == Range(AttributesOrEmpty(s))
    IN UNION {{SortByAttr({<<a, f[a]>> : a \in chosen}) :
                  f \in {g \in [chosen -> AttrValues] :
                            \A a \in chosen : Contains(s.attribute_values_[a], g[a])}} :
              chosen \in (SUBSET attrs) \ {{}}}

\* brute-force enumeration: the combinations of 1..max_order pairs, accepted
\* by is_valid, that meet both thresholds
BruteForce(s) ==
    {c \in CanonicalCombinations(s) :
        /\ Len(c) >= 1 /\ Len(c) <= Val(s.max_order)
        /\ _is_valid_combination(s, c)
        /\ _has_min_support(s, _compute_metrics(s, c))
        /\ _satisfies_ratio(s, _compute_metrics(s, c))}

\* C25. Exhaustive completeness: with top_k = None the set of combinations
\* returned by the exhaustive strategy equals the set of all canonical
\* combinations of size 1..max_order over the observed attribute values that
\* is_valid accepts and that reach min_support and min_ratio_metric, as
\* enumerated by brute force.
C25_ExhaustiveComplete ==
    (kind = "apriori" /\ Returned /\ IsNone(self.top_k)) =>
        Range(Mappings(result)) = BruteForce(self)

\* what the exhaustive strategy returns for the frame and the configuration
\* of the current call
Exhaustive == ExplainOutcome("apriori", configured, Frame)

\* C26. Heuristic soundness: with top_k = None, whatever the beam width,
\* every explanation the heuristic strategy returns is also returned by the
\* exhaustive strategy on the same frame and configuration, with identical
\* metric values; the heuristic returns no explanation twice, so it can only
\* lose explanations and never adds one.
C26_HeuristicSound ==
    (kind = "heuristic" /\ Returned /\ IsNone(self.top_k)) =>
        LET exhaustive == Exhaustive
        IN /\ exhaustive.outcome = "done"
           /\ Range(result) \subseteq Range(exhaustive.result)
           /\ \A i, j \in DOMAIN result :
                 result[i].attributes = result[j].attributes => i = j

\* the beam of width 1 lost an explanation: the heuristic returned some of
\* the explanations of the exhaustive search, and one less
C26_Witness ==
    /\ kind = "heuristic" /\ Returned /\ IsNone(self.top_k)
    /\ self.beam_width = 1
    /\ result # <<>>
    /\ Len(result) < Len(Exhaustive.result)
    /\ \E i \in DOMAIN result : Len(result[i].attributes) >= 2

\* the score of a combination: the value of the configured metric
Score(combination) == _metric_value(self, _compute_metrics(self, combination))

\* the first of two members of a beam: the higher score, then the smaller combination
Outranks(c1, c2) ==
    \/ Gt(Score(c1), Score(c2))
    \/ Score(c1) = Score(c2) /\ CombLt(c1, c2)

\* the min(beam_width, size of beam) highest-scoring members of the beam
TopOfBeam ==
    LET members == {candidate_heap[i].combination : i \in DOMAIN candidate_heap}
        n == IF self.beam_width < Cardinality(members)
             THEN self.beam_width ELSE Cardinality(members)
    IN {c \in members : Cardinality({e \in members : Outranks(e, c)}) < n}

\* a combination with one more pair, for an attribute that it lacks
Extensions(combination) ==
    UNION {{SortByAttr(Range(combination) \cup {<<a, v>>}) :
               v \in {w \in AttrValues : Contains(self.attribute_values_[a], w)}} :
           a \in Range(AttributesOrEmpty(self)) \ CombAttrs(combination)}

\* one pass of the beam loop expands the top of the beam and nothing else
ExpandsTopOfBeam ==
    (pc = "beam" /\ pc' = "beam" /\ current_depth' = current_depth + 1) =>
        LET fresh == {evaluated'[i] : i \in (DOMAIN evaluated') \ (DOMAIN evaluated)}
        IN /\ \A c \in fresh : \E b \in TopOfBeam : c \in Extensions(b)
           /\ \A b \in TopOfBeam : \A c \in Extensions(b) :
                 (c \notin visited /\ _is_valid_combination(self, c)) => c \in fresh

\* after the seed level the beam holds at most beam_width combinations, all
\* frequent and of as many pairs as the depth
BeamBounded ==
    (pc = "beam" /\ current_depth >= 2) =>
        /\ Len(candidate_heap) <= self.beam_width
        /\ \A i \in DOMAIN candidate_heap :
              /\ Len(candidate_heap[i].combination) = current_depth
              /\ Geq(SupportOf(candidate_heap[i].combination), self.min_support)

\* C27. Beam selection: at every depth of the heuristic search the
\* combinations expanded are exactly the min(beam_width, size of beam)
\* highest-scoring members of the current beam, ties broken by the order of
\* the combinations; after the seed level the beam carried to the next depth
\* never holds more than beam_width combinations, all of them frequent and of
\* size equal to the depth.
C27_BeamSelection == [][ExpandsTopOfBeam]_vars /\ []BeamBounded

\* depth 2 of a search with beam width 1: the beam holds one pair although
\* several frequent pairs were found, and the seed level had more than one
\* frequent singleton to choose from
C27_Witness ==
    /\ kind = "heuristic" /\ pc = "beam" /\ current_depth = 2
    /\ self.beam_width = 1
    /\ Len(candidate_heap) = 1
    /\ Cardinality({i \in DOMAIN evaluated :
            Len(evaluated[i]) = 2 /\ Frequent(evaluated[i])}) > 1
    /\ Cardinality({i \in DOMAIN evaluated :
            Len(evaluated[i]) = 1 /\ Frequent(evaluated[i])}) > 1

\* the loops run only while their conditions hold: a pass of the level loop
\* needs surviving candidates and k <= max_order, a pass of the beam loop a
\* non-empty beam and depth < max_order
LoopsStop ==
    /\ (pc = "levels" /\ k' = k + 1) =>
          (level_itemsets # <<>> /\ k <= Val(self.max_order))
    /\ (pc = "beam" /\ current_depth' = current_depth + 1) =>
          (candidate_heap # <<>> /\ current_depth < Val(self.max_order))

\* no combination of more than max_order pairs has been evaluated
EvaluatedWithinOrder ==
    pc \in {"run", "levels", "beam", "done"} =>
        \A i \in DOMAIN evaluated : Len(evaluated[i]) <= Val(self.max_order)

\* a step of a running call ends it or moves its loop counter up, and the
\* counters stay within the number of declared attributes
CallProgresses ==
    (pc \in {"run", "levels", "beam"} /\ pc' = pc /\ nCalls' = nCalls) =>
        (k' > k \/ current_depth' > current_depth)

\* C28. Termination: the level counter k of the exhaustive search stops at
\* the first level with no surviving candidates or when k exceeds max_order, the
\* depth of the heuristic search stops when the beam is empty or the depth
\* reaches max_order, and so no combination larger than max_order is ever
\* evaluated.
C28_Termination == [][LoopsStop]_vars /\ []EvaluatedWithinOrder

\* a float of the summarizer as a float of the metrics engine
AsFloat(x) ==
    IF x.d = 0 THEN [n |-> x.n, d |-> 0, e |-> 0] ELSE Fl(x.n, x.d, 0)

\* the rows of the frame of the call that match the combination, outliers or inliers
MatchCount(combination, outliers) ==
    Cardinality({i \in DOMAIN Frame.rows :
        /\ (Frame.rows[i][self.outlier_column] # 0) = outliers
        /\ \A j \in DOMAIN combination :
               Frame.rows[i][combination[j][1]] = combination[j][2]})

\* all the rows of the frame of the call, outliers or inliers
GroupCount(outliers) == MatchCount(<<>>, outliers)

\* the contingency table of a combination: exposed are the rows that match
\* it, unexposed the remaining rows
ExposureTable(combination) ==
    [exposed |-> BinaryGroup(Num(MatchCount(combination, TRUE)),
                             Num(MatchCount(combination, FALSE))),
     unexposed |-> BinaryGroup(
         Num(GroupCount(TRUE) - MatchCount(combination, TRUE)),
         Num(GroupCount(FALSE) - MatchCount(combination, FALSE))),
     total |-> None]

\* the table with the roles exchanged: its first group holds the outlier
\* rows, matching and not matching, its second group the inlier rows
OutcomeTable(combination) ==
    [exposed |-> BinaryGroup(Num(MatchCount(combination, TRUE)),
                             Num(GroupCount(TRUE) - MatchCount(combination, TRUE))),
     unexposed |-> BinaryGroup(
         Num(MatchCount(combination, FALSE)),
         Num(GroupCount(FALSE) - MatchCount(combination, FALSE))),
     total |-> None]

\* the explanations built so far in the call, and those returned
Built == Range(explanations) \cup (IF Returned THEN Range(result) ELSE {})

\* C29 as stated: the risk_ratio and risk_difference stored in an
\* Explanation equal the Metrics Engine's risk_ratio and risk_difference
\* (risk / baseline_risk, risk - baseline_risk) on the contingency table whose
\* exposed group is the rows matching the combination and whose unexposed group
\* is the remaining rows.
C29_EngineOnExposure ==
    pc \in {"levels", "beam", "done"} =>
        \A exp \in Built :
            /\ AsFloat(exp.risk_ratio) = risk_ratio(ExposureTable(exp.attributes))
            /\ AsFloat(exp.risk_difference) = risk_difference(ExposureTable(exp.attributes))

\* C29, amended: the risk_ratio and risk_difference stored in an Explanation
\* are support_outliers / support_inliers (+infinity when no inlier row
\* matches) and support_outliers - support_inliers, the matching fractions of
\* the outlier rows and of the inlier rows; these are the Metrics Engine's
\* risk_ratio and risk_difference on the table whose first group is the
\* outlier rows and whose second group is the inlier rows, each split into
\* matching and not matching.
C29_SupportQuotient ==
    pc \in {"levels", "beam", "done"} =>
        \A exp \in Built :
            LET matching_outliers == MatchCount(exp.attributes, TRUE)
                matching_inliers == MatchCount(exp.attributes, FALSE)
            IN /\ exp.support_outliers = Frac(matching_outliers, GroupCount(TRUE))
               /\ exp.support_inliers = Frac(matching_inliers, GroupCount(FALSE))
               /\ exp.risk_ratio =
                     IF matching_inliers = 0 THEN Inf
                     ELSE Frac(matching_outliers * GroupCount(FALSE),
                               matching_inliers * GroupCount(TRUE))
               /\ exp.risk_difference =
                     Frac(matching_outliers * GroupCount(FALSE)
                              - matching_inliers * GroupCount(TRUE),
                          GroupCount(TRUE) * GroupCount(FALSE))
               /\ AsFloat(exp.risk_ratio) = risk_ratio(OutcomeTable(exp.attributes))
               /\ AsFloat(exp.risk_difference)
                     = risk_difference(OutcomeTable(exp.attributes))

\* an explanation whose stored ratio is finite and differs from the ratio of
\* the Metrics Engine on the table of matching and remaining rows
C29_Witness ==
    /\ Returned
    /\ \E i \in DOMAIN result :
          /\ result[i].risk_ratio # Inf
          /\ Gt(result[i].risk_ratio, Frac(1, 1))
          /\ AsFloat(result[i].risk_ratio) # risk_ratio(ExposureTable(result[i].attributes))

\* C30. Classifier lifecycle: for every concrete classifier, fitted is False
\* after construction, score or predict before fit fail with RuntimeError
\* ('Classifier must be fitted before use.'), and after a successful fit the
\* classifier is fitted and stays fitted through every later score and predict.
C30_Lifecycle ==
    ~IsNone(clf) =>
        LET obj == Val(clf)
        IN /\ ~obj.fit_done => (fitted(obj).raised = "" /\ ~fitted(obj).value)
           /\ (obj.last.op \in {"score", "predict"} /\ obj.last.before # Some(TRUE))
                 => obj.last.raised = "RuntimeError"
           /\ obj.fit_done => (fitted(obj).raised = "" /\ fitted(obj).value)

====
